---- MODULE Spec2Model ----
(***************************************************************************)
(* Model of the artemis-insight summarisation backend.                     *)
(*                                                                         *)
(*   Spec      the job store: generate_summary_task workers, cancel_job,   *)
(*             the stuck-job sweep and the clock, interleaved at the       *)
(*             granularity of single database operations.                  *)
(*   SpecBulk  the sweep over a store holding more stuck jobs than one     *)
(*             detection query returns (workers lost).                     *)
(*   SpecEngine  one ProcessingEngine.process_document run: indexing, then *)
(*             per section retrieval and synthesis with its retry loop.    *)
(*   SpecRun   the executions of generate_summary_task for one job, each   *)
(*             running the engine inside its processing step.              *)
(*   SpecRegenerate  one ProcessingEngine.regenerate_section call.         *)
(*   SpecRegenerateTask  one regenerate_section_task execution.            *)
(*   SpecWrites  every writer of a job document: both tasks, cancel_job,   *)
(*             the sweep and the clock.                                    *)
(*   SpecChunker  one PDFProcessor.create_semantic_chunks call.            *)
(*   SpecSearch  one EmbeddingService.search_similar_chunks call.          *)
(*   SpecEmbed  generate_embeddings_for_chunks calls under every batch     *)
(*             size, over one embeddings collection.                       *)
(*   SpecConcurrent  two generate_summary_task jobs whose runs index and   *)
(*             search their documents in the same collection.              *)
(*   SpecCosine  one cosine_similarity call in floating point.             *)
(*   SpecRetry  one retry_failed_summary request and the task it queues.   *)
(*   SpecReindex  successive runs of the engine on one document.           *)
(***************************************************************************)
EXTENDS Integers, Sequences, FiniteSets, TLC

(***************************************************************************)
(* Bounds of the model.                                                    *)
(***************************************************************************)
NSweepers == 2
MaxPeriods == 1
MaxBulkJobs == 101
MaxSections == 2
MaxPages == 3
MaxPageWords == 3
MaxChunkSize == 4
MaxChunks == 10
MaxStored == 3
MaxEmbedChunks == 4
MaxPasses == 2
MaxExecutions == 1
MaxComponent == 3

(***************************************************************************)
(* Program constants.                                                      *)
(***************************************************************************)
TimeoutMinutes == 60
DetectLimit == 100
TaskMaxRetries == 2

NoTime == -1
NoMsg == <<>>
NoSummary == <<>>

PENDING == "pending"
RUNNING == "running"
COMPLETED == "completed"
FAILED == "failed"
CANCELLED == "cancelled"
JobStatus == {PENDING, RUNNING, COMPLETED, FAILED, CANCELLED}

PROCESSING == "processing"
SummaryStatus == {PROCESSING, COMPLETED, FAILED}

VARIABLES
    now,        \* datetime.utcnow(), in minutes
    jobs,       \* db.jobs: job id -> document
    summaries,  \* db.summaries: summary id -> document
    wpc,        \* position of the generate_summary_task execution of each job
    wattempt,   \* number of the current task execution of each job (1 = first)
    wsummary,   \* the task's local summary_id
    werr,       \* the exception caught by the task's except clause
    cpc,        \* position of the cancel_job request of each job
    sweepPc,    \* position of each auto_fail_stuck_jobs call
    sweepIds,   \* its stuck_job_ids
    sweepMod,   \* its result.modified_count
    sweepRet,   \* the value its last call returned
    quiet,      \* the last store operation was a sweep returning
    template,   \* the template of the ProcessingEngine run
    engine,     \* the ProcessingEngine run: position, locals and result
    chunker,    \* a PDFProcessor.create_semantic_chunks call
    search,     \* an EmbeddingService.search_similar_chunks call
    collection, \* db.embeddings: the stored records, in insertion order
    embedder,   \* the indexing and retrieval of each run of the engine
    retry       \* a retry_failed_summary request

vars == <<now, jobs, summaries, wpc, wattempt, wsummary, werr, cpc,
          sweepPc, sweepIds, sweepMod, sweepRet, quiet, template, engine,
          chunker, search, collection, embedder, retry>>

storeVars == <<now, jobs, summaries, wpc, wattempt, wsummary, werr, cpc,
               sweepPc, sweepIds, sweepMod, sweepRet, quiet>>
indexVars == <<collection, embedder>>
engineVars == <<template, engine, chunker, search, indexVars, retry>>
\* what a step of the engine leaves alone besides the store
runVars == <<template, chunker, search, indexVars, retry>>

Sweepers == 1..NSweepers
JobIds == DOMAIN jobs

(***************************************************************************)
(* Helpers.                                                                *)
(***************************************************************************)
\* the first n elements of a finite set of integers, in ascending order
FirstN(S, n) == {x \in S : Cardinality({y \in S : y < x}) < n}

(***************************************************************************)
(* routes/summaries.py create_summary: the job document as inserted.       *)
(***************************************************************************)
NewJob(t) ==
    [status |-> PENDING, progress |-> 0, updated_at |-> t,
     completed_at |-> NoTime, error_message |-> NoMsg, summary_id |-> NoSummary]

(***************************************************************************)
(* utils/task_monitor.py                                                   *)
(***************************************************************************)
JobTimeoutMessage(timeout_minutes) ==
    <<"Job timed out (no progress for >", timeout_minutes, " minutes). Please try again.">>

SummaryTimeoutMessage ==
    <<"Processing timeout - task did not complete within expected timeframe">>

IsStuck_NoStatusFilter(job, t, timeout_minutes) ==
    job.updated_at < t - timeout_minutes

\* the find() filter of detect_stuck_jobs
IsStuck(job, t, timeout_minutes) ==
    /\ job.status \in {PENDING, RUNNING}
    /\ job.updated_at < t - timeout_minutes

\* detect_stuck_jobs: at most DetectLimit matching ids, in the store's order
detect_stuck_jobs(db_jobs, t, timeout_minutes) ==
    FirstN({j \in DOMAIN db_jobs : IsStuck(db_jobs[j], t, timeout_minutes)},
           DetectLimit)

FailedByTimeout_StatusKept(job, t, timeout_minutes) ==
    [job EXCEPT !.error_message = JobTimeoutMessage(timeout_minutes),
                !.completed_at = t]

\* the $set of the jobs update_many
FailedByTimeout(job, t, timeout_minutes) ==
    [job EXCEPT !.status = FAILED,
                !.error_message = JobTimeoutMessage(timeout_minutes),
                !.completed_at = t,
                !.updated_at = t]

\* the $set of the summaries update_many
SummaryFailedByTimeout(s, t) ==
    [s EXCEPT !.status = FAILED,
              !.error_message = SummaryTimeoutMessage,
              !.completed_at = t]

\* db.jobs.update_many({"_id": {"$in": ids}}, ...)
SweepUpdateJobs(db_jobs, ids, t, timeout_minutes) ==
    [j \in DOMAIN db_jobs |->
        IF j \in ids THEN FailedByTimeout(db_jobs[j], t, timeout_minutes)
                     ELSE db_jobs[j]]

SweepUpdateSummaries_OnlyProcessing(db_summaries, ids, t) ==
    [s \in DOMAIN db_summaries |->
        IF db_summaries[s].job_id \in ids /\ db_summaries[s].status = PROCESSING
        THEN SummaryFailedByTimeout(db_summaries[s], t)
        ELSE db_summaries[s]]

\* db.summaries.update_many({"job_id": {"$in": ids}}, ...)
SweepUpdateSummaries(db_summaries, ids, t) ==
    [s \in DOMAIN db_summaries |->
        IF db_summaries[s].job_id \in ids
        THEN SummaryFailedByTimeout(db_summaries[s], t)
        ELSE db_summaries[s]]

\* auto_fail_stuck_jobs up to the early return: the detection read
SweepDetect(s) ==
    /\ sweepPc[s] = "idle"
    /\ LET ids == detect_stuck_jobs(jobs, now, TimeoutMinutes)
       IN  IF ids = {}
           THEN /\ sweepRet' = [sweepRet EXCEPT ![s] = 0]
                /\ quiet' = TRUE
                /\ UNCHANGED <<sweepPc, sweepIds>>
           ELSE /\ sweepPc' = [sweepPc EXCEPT ![s] = "detected"]
                /\ sweepIds' = [sweepIds EXCEPT ![s] = ids]
                /\ UNCHANGED <<sweepRet, quiet>>
    /\ UNCHANGED engineVars
    /\ UNCHANGED <<now, jobs, summaries, wpc, wattempt, wsummary, werr,
                   cpc, sweepMod>>

\* auto_fail_stuck_jobs: the jobs update_many
SweepFailJobs(s) ==
    /\ sweepPc[s] = "detected"
    /\ jobs' = SweepUpdateJobs(jobs, sweepIds[s], now, TimeoutMinutes)
    /\ sweepMod' = [sweepMod EXCEPT
                      ![s] = Cardinality({j \in sweepIds[s] : jobs'[j] # jobs[j]})]
    /\ sweepPc' = [sweepPc EXCEPT ![s] = "jobsFailed"]
    /\ quiet' = FALSE
    /\ UNCHANGED engineVars
    /\ UNCHANGED <<now, summaries, wpc, wattempt, wsummary, werr, cpc,
                   sweepIds, sweepRet>>

\* auto_fail_stuck_jobs: the summaries update_many and the return
SweepFailSummaries(s) ==
    /\ sweepPc[s] = "jobsFailed"
    /\ summaries' = SweepUpdateSummaries(summaries, sweepIds[s], now)
    /\ sweepRet' = [sweepRet EXCEPT ![s] = sweepMod[s]]
    /\ sweepPc' = [sweepPc EXCEPT ![s] = "idle"]
    /\ quiet' = TRUE
    /\ UNCHANGED engineVars
    /\ UNCHANGED <<now, jobs, wpc, wattempt, wsummary, werr, cpc,
                   sweepIds, sweepMod>>

(***************************************************************************)
(* services/processing_engine.py: the messages _pass_3_synthesize_section  *)
(* raises with, and app/tasks.py: the except clause's message mapping.     *)
(***************************************************************************)
MAX_RETRIES == 3
RETRY_DELAY_BASE == 2

TimeoutExhaustedMessage ==
    <<"OpenAI API timeout after ", MAX_RETRIES, " attempts. Please try again later.">>

RateLimitExhaustedMessage ==
    <<"OpenAI rate limit exceeded. Please wait a few minutes and try again.">>

\* f"OpenAI API error: {str(e)}"
ApiErrorMessage(raw) == <<"OpenAI API error: ">> \o raw

DocumentNotFoundMessage == <<"Document not found: ", "document_id">>

TemplateNotFoundMessage == <<"Template not found: ", "template_id">>

\* "rate limit" in error_message.lower()
ContainsRateLimit(m) ==
    m \in {RateLimitExhaustedMessage, <<"Rate limit exceeded">>}
\* "timeout" in error_message.lower()
ContainsTimeout(m) == m = TimeoutExhaustedMessage

\* generate_summary_task, except clause: user_friendly_message
UserFriendlyMessage(error_message) ==
    IF ContainsRateLimit(error_message)
    THEN <<"OpenAI API rate limit exceeded. Please try again later or check your API quota at https://platform.openai.com/account/usage">>
    ELSE IF ContainsTimeout(error_message)
    THEN <<"Request timed out while processing the document. The document may be too large or the service is slow. Please try again.">>
    ELSE error_message

\* the exceptions a task execution is modelled to catch
LookupErrors == {DocumentNotFoundMessage, TemplateNotFoundMessage}
ProcessingErrors == {TimeoutExhaustedMessage}

(***************************************************************************)
(* services/processing_engine.py: ProcessingEngine.process_document, one   *)
(* action per pass and per completion attempt.  A message is a tuple of    *)
(* the parts it is formatted from; an exception is its class and message.  *)
(***************************************************************************)
SearchTopK == 20
SynthesisContextChunks == 15

\* the section titles templates are drawn from
Titles ==
    <<"References", "Scheme Locality",
      "Overview Description of the Intervention", "Saving or Yield">>

SectionPool == {[title |-> Titles[i], order |-> i] : i \in 1..MaxSections}

\* template.sections: the stored list, in any order of the sections' order field
Templates ==
    {t \in UNION {[1..n -> SectionPool] : n \in 1..MaxSections} :
        \A i, k \in DOMAIN t : i # k => t[i] # t[k]}

\* len(search_results) of the similarity search, at most top_k
HitCounts == {0, 1, SynthesisContextChunks, SearchTopK}

\* what _pass_1_index_document returns for a one-page and a three-page document
IndexingResults ==
    {[total_pages |-> 1, total_words |-> 120, total_chunks |-> 1,
      embedding_count |-> 1],
     [total_pages |-> 3, total_words |-> 10000, total_chunks |-> 23,
      embedding_count |-> 23]}

NoIndexing ==
    [total_pages |-> 0, total_words |-> 0, total_chunks |-> 0,
     embedding_count |-> 0]

\* the page_number of each of n search results over a document of total_pages
\* pages: chunk pages are clamped to 1..total_pages by the chunker
HitPages(n, total_pages) == [i \in 1..n |-> ((i - 1) % total_pages) + 1]

\* search_similar_chunks: results[:top_k] of the document's embeddings
SearchResults(indexing) ==
    {HitPages(n, indexing.total_pages) :
        n \in {h \in HitCounts : h <= indexing.embedding_count /\ h <= SearchTopK}}

APITimeoutError == "APITimeoutError"
RateLimitError == "RateLimitError"
APIError == "APIError"

\* what chat.completions.create or reading its response raises
CompletionFailures ==
    {[type |-> APITimeoutError, message |-> <<"Request timed out.">>],
     [type |-> RateLimitError, message |-> <<"Rate limit exceeded">>],
     [type |-> APIError, message |-> <<"Internal server error">>],
     [type |-> "AttributeError",
      message |-> <<"'NoneType' object has no attribute 'strip'">>]}

\* response.choices[0].message.content, as the provider returns it
CompletionContents ==
    {<<"Synthesized content">>,
     <<"\n", "Synthesized", " ", "content", " ", "\n">>}

Whitespace == {" ", "\n"}

RECURSIVE LStrip(_)
LStrip(s) == IF s # <<>> /\ Head(s) \in Whitespace THEN LStrip(Tail(s)) ELSE s

Reverse(s) == [i \in 1..Len(s) |-> s[Len(s) + 1 - i]]

\* only leading whitespace is removed
Strip_LeadingOnly(s) == LStrip(s)

\* str.strip()
Strip(s) == Reverse(LStrip(Reverse(LStrip(s))))

\* embeddings.create fails while the query text is embedded
RetrievalFailures ==
    {[type |-> RateLimitError, message |-> <<"Rate limit exceeded">>]}

\* generate_embeddings_for_chunks on a document without chunks
IndexingFailures ==
    {[type |-> "ValueError",
      message |-> <<"Cannot generate embeddings for empty chunks list">>]}

NoException == [type |-> "", message |-> NoMsg]

\* return f"No relevant content found for section: {section.title}"
FallbackContent(title) == <<"No relevant content found for section: ", title>>

\* "if not relevant_chunks" answers always false
HasNoChunks_Never(hits) == FALSE

\* if not relevant_chunks
HasNoChunks(hits) == hits = 0

\* every class backs off as the rate-limit handler does
BackoffDelay_AllLonger(e, attempt) == RETRY_DELAY_BASE ^ (attempt + 1)

\* the argument of asyncio.sleep in the handler of e after attempt
BackoffDelay(e, attempt) ==
    IF e.type = RateLimitError
    THEN RETRY_DELAY_BASE ^ (attempt + 1)
    ELSE RETRY_DELAY_BASE ^ attempt

\* the handlers give up one attempt late
IsLastAttempt_OneLate(attempt) == attempt = MAX_RETRIES + 1

\* if attempt == self.MAX_RETRIES, and the end of range(1, MAX_RETRIES + 1)
IsLastAttempt(attempt) == attempt = MAX_RETRIES

\* what the handler of e raises at attempt == MAX_RETRIES
ExhaustedException(e) ==
    CASE e.type = APITimeoutError ->
             [type |-> "Exception", message |-> TimeoutExhaustedMessage]
      [] e.type = RateLimitError ->
             [type |-> "Exception", message |-> RateLimitExhaustedMessage]
      [] e.type = APIError ->
             [type |-> "Exception", message |-> ApiErrorMessage(e.message)]
      [] OTHER -> e

CurrentSection == template[engine.idx]

\* e propagates out of the engine; in process_document the except clause
\* marks the result failed on the way
Raise(eng, at, e) ==
    [eng EXCEPT !.pc = "failed", !.raised = e, !.failedAt = at,
                !.status = IF eng.mode = "run" THEN FAILED ELSE @,
                !.error = IF eng.mode = "run" THEN e.message ELSE @]

\* the except clause of process_document: the result is failed, e propagates
EngineFailed(at, e) == Raise(engine, at, e)

NoSection ==
    [title |-> "", order |-> 0, content |-> NoMsg, source_chunks |-> 0,
     pages_referenced |-> {}]

\* the state of a run before its first pass; trace lists the passes entered
EngineStart ==
    [pc |-> "pass1", idx |-> 0, hits |-> 0, attempt |-> 0, calls |-> 0,
     sleeps |-> <<>>, fails |-> <<>>, content |-> NoMsg, sections |-> <<>>,
     status |-> "", error |-> NoMsg, raised |-> NoException, failedAt |-> "",
     mode |-> "run", title |-> "", indexing |-> NoIndexing,
     metadata |-> NoIndexing, chunks |-> <<>>, response |-> NoMsg,
     returned |-> NoSection, trace |-> <<<<"pass1", 0>>>>, context |-> <<>>,
     progress_callback |-> FALSE, signals |-> <<>>]

\* if progress_callback: progress_callback(stage, message)
Signal(eng, stage, idx) ==
    IF eng.progress_callback
    THEN [eng EXCEPT !.signals = Append(@, <<stage, idx>>)]
    ELSE eng

\* process_document(..., progress_callback) up to the call of pass 1;
\* progress_callback is TRUE when a callback is given, FALSE for None
ProcessDocument(progress_callback) ==
    Signal([EngineStart EXCEPT !.progress_callback = progress_callback],
           "pass_1", 0)

\* no run
EngineIdle == [EngineStart EXCEPT !.pc = "idle"]

\* total_words is filled from the chunk count
ResultMetadata_WordsFromChunks(indexing_result) ==
    [total_pages |-> indexing_result.total_pages,
     total_words |-> indexing_result.total_chunks,
     total_chunks |-> indexing_result.total_chunks,
     embedding_count |-> indexing_result.embedding_count]

\* result["metadata"][...] = indexing_result[...], key by key
ResultMetadata(indexing_result) ==
    [total_pages |-> indexing_result.total_pages,
     total_words |-> indexing_result.total_words,
     total_chunks |-> indexing_result.total_chunks,
     embedding_count |-> indexing_result.embedding_count]

\* _pass_1_index_document returns
Pass1Returns ==
    /\ engine.pc = "pass1"
    /\ \E ix \in IndexingResults :
          engine' = Signal([engine EXCEPT !.pc = "pass2", !.idx = 1,
                                          !.indexing = ix,
                                          !.metadata = ResultMetadata(ix),
                                          !.trace = Append(@, <<"pass2", 1>>)],
                           "section_processing", 1)
    /\ UNCHANGED runVars
    /\ UNCHANGED storeVars

\* _pass_1_index_document raises
Pass1Raises ==
    /\ engine.pc = "pass1"
    /\ \E e \in IndexingFailures : engine' = EngineFailed("pass1", e)
    /\ UNCHANGED runVars
    /\ UNCHANGED storeVars

\* _pass_2_query_relevant_chunks returns the hits of the current section
Pass2Returns ==
    /\ engine.pc = "pass2"
    /\ \E relevant_chunks \in SearchResults(engine.indexing) :
          engine' = [engine EXCEPT !.pc = "pass3",
                                   !.chunks = relevant_chunks,
                                   !.hits = Len(relevant_chunks),
                                   !.attempt = 1, !.calls = 0, !.sleeps = <<>>,
                                   !.fails = <<>>, !.content = NoMsg,
                                   !.response = NoMsg, !.context = <<>>,
                                   !.trace = Append(@, <<"pass3", engine.idx>>)]
    /\ UNCHANGED runVars
    /\ UNCHANGED storeVars

\* _pass_2_query_relevant_chunks raises
Pass2Raises ==
    /\ engine.pc = "pass2"
    /\ \E e \in RetrievalFailures : engine' = EngineFailed("pass2", e)
    /\ UNCHANGED runVars
    /\ UNCHANGED storeVars

\* _pass_3_synthesize_section: the short-circuit on no hits
Pass3NoChunks ==
    /\ engine.pc = "pass3"
    /\ HasNoChunks(engine.hits)
    /\ engine' = [engine EXCEPT !.pc = "pass4",
                                !.content = FallbackContent(CurrentSection.title),
                                !.trace = Append(@, <<"pass4", engine.idx>>)]
    /\ UNCHANGED runVars
    /\ UNCHANGED storeVars

\* relevant_chunks[:15], the chunks the synthesis prompt is built from
ContextChunks(relevant_chunks) ==
    SubSeq(relevant_chunks, 1,
           IF Len(relevant_chunks) < SynthesisContextChunks
           THEN Len(relevant_chunks) ELSE SynthesisContextChunks)

\* one iteration of the retry loop whose completion call succeeds
Pass3AttemptReturns ==
    /\ engine.pc = "pass3"
    /\ ~HasNoChunks(engine.hits)
    /\ \E c \in CompletionContents :
          engine' = [engine EXCEPT !.pc = "pass4", !.calls = @ + 1,
                                   !.context = ContextChunks(engine.chunks),
                                   !.response = c, !.content = Strip(c),
                                   !.trace = Append(@, <<"pass4", engine.idx>>)]
    /\ UNCHANGED runVars
    /\ UNCHANGED storeVars

\* one iteration of the retry loop whose completion call fails: the handler
\* raises at the last attempt, and sleeps before the next one otherwise
Pass3AttemptFails ==
    /\ engine.pc = "pass3"
    /\ ~HasNoChunks(engine.hits)
    /\ \E e \in CompletionFailures :
          LET called == [engine EXCEPT !.calls = @ + 1,
                                       !.context = ContextChunks(engine.chunks),
                                       !.fails = Append(@, e)]
          IN  IF IsLastAttempt(engine.attempt)
              THEN engine' = Raise(called, "pass3", ExhaustedException(e))
              ELSE engine' = [called EXCEPT
                                !.sleeps = Append(@, BackoffDelay(e, engine.attempt)),
                                !.attempt = @ + 1]
    /\ UNCHANGED runVars
    /\ UNCHANGED storeVars

\* Pass 4 of _process_section: the dict it returns
SectionResult(section, content, relevant_chunks) ==
    [title |-> section.title, order |-> section.order, content |-> content,
     source_chunks |-> Len(relevant_chunks),
     pages_referenced |-> {relevant_chunks[i] : i \in DOMAIN relevant_chunks}]

\* the loop skips every other section
NextSectionIndex_Skip(idx) == idx + 2

\* for idx, section in enumerate(template.sections, 1): the next iteration
NextSectionIndex(idx) == idx + 1

\* _process_section returns and process_document appends the section; after
\* the last section the result is completed
Pass4Assemble ==
    /\ engine.pc = "pass4"
    /\ engine.mode = "run"
    /\ LET section_result ==
               SectionResult(CurrentSection, engine.content, engine.chunks)
           appended == [engine EXCEPT !.sections = Append(@, section_result)]
       IN  IF engine.idx = Len(template)
           THEN engine' = [appended EXCEPT !.pc = "completed",
                                           !.status = COMPLETED]
           ELSE engine' = Signal([appended EXCEPT
                                    !.pc = "pass2",
                                    !.idx = NextSectionIndex(engine.idx),
                                    !.trace = Append(@, <<"pass2",
                                                   NextSectionIndex(engine.idx)>>)],
                                  "section_processing",
                                  NextSectionIndex(engine.idx))
    /\ UNCHANGED runVars
    /\ UNCHANGED storeVars

(***************************************************************************)
(* ProcessingEngine.regenerate_section                                     *)
(***************************************************************************)
SectionNotFound(section_title) ==
    [type |-> "ValueError",
     message |-> <<"Section '", section_title, "' not found in template">>]

\* the section found is the last one with the title
FindSection_Last(sections, section_title) ==
    LET M == {i \in DOMAIN sections : sections[i].title = section_title}
    IN  IF M = {} THEN 0 ELSE CHOOSE i \in M : \A k \in M : i >= k

\* next((s for s in template.sections if s.title == section_title), None):
\* the position of the first section with the title, 0 for None
FindSection(sections, section_title) ==
    LET M == {i \in DOMAIN sections : sections[i].title = section_title}
    IN  IF M = {} THEN 0 ELSE CHOOSE i \in M : \A k \in M : i <= k

\* the section is found and _process_section is called with it
RegenerateFinds ==
    /\ engine.pc = "regenerate"
    /\ FindSection(template, engine.title) # 0
    /\ LET found == FindSection(template, engine.title)
       IN  engine' = [engine EXCEPT !.pc = "pass2", !.idx = found,
                                    !.trace = Append(@, <<"pass2", found>>)]
    /\ UNCHANGED runVars
    /\ UNCHANGED storeVars

\* if not section: raise ValueError
RegenerateRaises ==
    /\ engine.pc = "regenerate"
    /\ FindSection(template, engine.title) = 0
    /\ engine' = Raise(engine, "regenerate", SectionNotFound(engine.title))
    /\ UNCHANGED runVars
    /\ UNCHANGED storeVars

\* return await self._process_section(...)
RegenerateReturns ==
    /\ engine.pc = "pass4"
    /\ engine.mode = "regenerate"
    /\ engine' = [engine EXCEPT
                    !.pc = "returned",
                    !.returned = SectionResult(CurrentSection, engine.content,
                                               engine.chunks)]
    /\ UNCHANGED runVars
    /\ UNCHANGED storeVars

(***************************************************************************)
(* app/tasks.py generate_summary_task, one action per database operation.  *)
(***************************************************************************)
SummaryId(j, a) == <<j, a>>

\* without a template the run of the engine is abstracted to its outcome
EngineAbstracted == template = <<>>

NewSummary(j) ==
    [job_id |-> j, status |-> PROCESSING, error_message |-> NoMsg,
     completed_at |-> NoTime]

\* the summary document update_one({"job_id": j}) matches: the first in store order
FirstSummaryOfJob(db_summaries, j) ==
    LET S == {s \in DOMAIN db_summaries : db_summaries[s].job_id = j}
    IN  IF S = {} THEN {}
        ELSE {CHOOSE s \in S : \A r \in S : s[2] <= r[2]}

\* the progress is written without the timestamp
update_progress_ProgressOnly(db_jobs, j, progress, t) ==
    [db_jobs EXCEPT ![j].progress = progress]

\* def update_progress(progress, message)
update_progress(db_jobs, j, progress, t) ==
    [db_jobs EXCEPT ![j].progress = progress, ![j].updated_at = t]

\* "Update job status to RUNNING"
TaskStart(j) ==
    /\ wpc[j] = "queued"
    /\ jobs' = [jobs EXCEPT ![j].status = RUNNING,
                            ![j].progress = 0,
                            ![j].updated_at = now]
    /\ wpc' = [wpc EXCEPT ![j] = "started"]
    /\ quiet' = FALSE
    /\ UNCHANGED engineVars
    /\ UNCHANGED <<now, summaries, wattempt, wsummary, werr, cpc,
                   sweepPc, sweepIds, sweepMod, sweepRet>>

\* document or template not found: ValueError before the summary is created
TaskLookupFails(j) ==
    /\ wpc[j] = "started"
    /\ \E e \in LookupErrors : werr' = [werr EXCEPT ![j] = e]
    /\ wpc' = [wpc EXCEPT ![j] = "except"]
    /\ UNCHANGED engineVars
    /\ UNCHANGED <<now, jobs, summaries, wattempt, wsummary, cpc,
                   sweepPc, sweepIds, sweepMod, sweepRet, quiet>>

\* "Create Summary record in PROCESSING state"
TaskCreateSummary(j) ==
    /\ wpc[j] = "started"
    /\ LET id == SummaryId(j, wattempt[j])
       IN  /\ summaries' = (id :> NewSummary(j)) @@ summaries
           /\ wsummary' = [wsummary EXCEPT ![j] = id]
    /\ wpc' = [wpc EXCEPT ![j] = "created"]
    /\ quiet' = FALSE
    /\ UNCHANGED engineVars
    /\ UNCHANGED <<now, jobs, wattempt, werr, cpc,
                   sweepPc, sweepIds, sweepMod, sweepRet>>

\* update_progress(5, ...) and update_progress(10, ...); after the second
\* the engine is called with progress_callback=None
TaskProgress(j) ==
    /\ wpc[j] \in {"created", "downloaded"}
    /\ jobs' = update_progress(jobs, j, IF wpc[j] = "created" THEN 5 ELSE 10, now)
    /\ wpc' = [wpc EXCEPT ![j] = IF wpc[j] = "created" THEN "downloaded"
                                                        ELSE "processing"]
    /\ quiet' = FALSE
    /\ engine' = IF wpc[j] = "downloaded" /\ ~EngineAbstracted
                 THEN ProcessDocument(FALSE) ELSE engine
    /\ UNCHANGED runVars
    /\ UNCHANGED <<now, summaries, wattempt, wsummary, werr, cpc,
                   sweepPc, sweepIds, sweepMod, sweepRet>>

\* asyncio.run(run_processing()) returns; the engine is done with
TaskProcessingReturns(j) ==
    /\ wpc[j] = "processing"
    /\ EngineAbstracted \/ engine.pc = "completed"
    /\ wpc' = [wpc EXCEPT ![j] = "processed"]
    /\ engine' = EngineIdle
    /\ UNCHANGED runVars
    /\ UNCHANGED <<now, jobs, summaries, wattempt, wsummary, werr, cpc,
                   sweepPc, sweepIds, sweepMod, sweepRet, quiet>>

\* asyncio.run(run_processing()) raises
TaskProcessingRaises(j) ==
    /\ wpc[j] = "processing"
    /\ \E e \in (IF EngineAbstracted THEN ProcessingErrors
                  ELSE IF engine.pc = "failed" THEN {engine.error} ELSE {}) :
          werr' = [werr EXCEPT ![j] = e]
    /\ wpc' = [wpc EXCEPT ![j] = "except"]
    /\ engine' = EngineIdle
    /\ UNCHANGED runVars
    /\ UNCHANGED <<now, jobs, summaries, wattempt, wsummary, cpc,
                   sweepPc, sweepIds, sweepMod, sweepRet, quiet>>

\* "Update summary with results"
TaskCompleteSummary(j) ==
    /\ wpc[j] = "processed"
    /\ summaries' = [summaries EXCEPT ![wsummary[j]].status = COMPLETED,
                                      ![wsummary[j]].completed_at = now]
    /\ wpc' = [wpc EXCEPT ![j] = "summaryDone"]
    /\ quiet' = FALSE
    /\ UNCHANGED engineVars
    /\ UNCHANGED <<now, jobs, wattempt, wsummary, werr, cpc,
                   sweepPc, sweepIds, sweepMod, sweepRet>>

\* update_progress(100, ...) followed by "Update job status to COMPLETED"
TaskCompleteJob(j) ==
    /\ wpc[j] \in {"summaryDone", "progress100"}
    /\ IF wpc[j] = "summaryDone"
       THEN /\ jobs' = update_progress(jobs, j, 100, now)
            /\ wpc' = [wpc EXCEPT ![j] = "progress100"]
       ELSE /\ jobs' = [jobs EXCEPT ![j].status = COMPLETED,
                                    ![j].progress = 100,
                                    ![j].summary_id = wsummary[j],
                                    ![j].completed_at = now,
                                    ![j].updated_at = now]
            /\ wpc' = [wpc EXCEPT ![j] = "done"]
    /\ quiet' = FALSE
    /\ UNCHANGED engineVars
    /\ UNCHANGED <<now, summaries, wattempt, wsummary, werr, cpc,
                   sweepPc, sweepIds, sweepMod, sweepRet>>

\* except clause: "Update job status to FAILED"
TaskFailJob(j) ==
    /\ wpc[j] = "except"
    /\ jobs' = [jobs EXCEPT ![j].status = FAILED,
                            ![j].error_message = UserFriendlyMessage(werr[j]),
                            ![j].completed_at = now,
                            ![j].updated_at = now]
    /\ wpc' = [wpc EXCEPT ![j] = "jobFailed"]
    /\ quiet' = FALSE
    /\ UNCHANGED engineVars
    /\ UNCHANGED <<now, summaries, wattempt, wsummary, werr, cpc,
                   sweepPc, sweepIds, sweepMod, sweepRet>>

\* except clause: "Update summary status to FAILED if it exists", then raise;
\* autoretry_for=(Exception,) re-queues the task while retries < max_retries
TaskFailSummary(j) ==
    /\ wpc[j] = "jobFailed"
    /\ summaries' = [s \in DOMAIN summaries |->
                       IF s \in FirstSummaryOfJob(summaries, j)
                       THEN [summaries[s] EXCEPT
                               !.status = FAILED,
                               !.error_message = UserFriendlyMessage(werr[j]),
                               !.completed_at = now]
                       ELSE summaries[s]]
    /\ IF wattempt[j] <= TaskMaxRetries
       THEN /\ wpc' = [wpc EXCEPT ![j] = "queued"]
            /\ wattempt' = [wattempt EXCEPT ![j] = @ + 1]
       ELSE /\ wpc' = [wpc EXCEPT ![j] = "raised"]
            /\ UNCHANGED wattempt
    /\ wsummary' = [wsummary EXCEPT ![j] = NoSummary]
    /\ werr' = [werr EXCEPT ![j] = NoMsg]
    /\ quiet' = FALSE
    /\ UNCHANGED engineVars
    /\ UNCHANGED <<now, jobs, cpc, sweepPc, sweepIds, sweepMod, sweepRet>>

\* the worker process executing the task dies (crash, kill, terminate)
WorkerLost(j) ==
    /\ wpc[j] \notin {"queued", "done", "raised", "lost"}
    /\ wpc' = [wpc EXCEPT ![j] = "lost"]
    /\ UNCHANGED engineVars
    /\ UNCHANGED <<now, jobs, summaries, wattempt, wsummary, werr, cpc,
                   sweepPc, sweepIds, sweepMod, sweepRet, quiet>>

(***************************************************************************)
(* routes/jobs.py cancel_job                                               *)
(***************************************************************************)
\* find_one and "Check if job can be cancelled"
CancelCheck(j) ==
    /\ cpc[j] = "idle"
    /\ cpc' = [cpc EXCEPT ![j] =
                 IF jobs[j].status \in {COMPLETED, FAILED, CANCELLED}
                 THEN "rejected" ELSE "checked"]
    /\ UNCHANGED engineVars
    /\ UNCHANGED <<now, jobs, summaries, wpc, wattempt, wsummary, werr,
                   sweepPc, sweepIds, sweepMod, sweepRet, quiet>>

\* "Update job status" to CANCELLED
CancelWrite(j) ==
    /\ cpc[j] = "checked"
    /\ jobs' = [jobs EXCEPT ![j].status = CANCELLED,
                            ![j].completed_at = now,
                            ![j].updated_at = now]
    /\ cpc' = [cpc EXCEPT ![j] = "cancelled"]
    /\ quiet' = FALSE
    /\ UNCHANGED engineVars
    /\ UNCHANGED <<now, summaries, wpc, wattempt, wsummary, werr,
                   sweepPc, sweepIds, sweepMod, sweepRet>>

(***************************************************************************)
(* services/pdf_processor.py: PDFProcessor.  A text is the number of its   *)
(* words, all of one length; a chunk's text is the range of words it       *)
(* holds.  One action per iteration of the chunking loop.                  *)
(***************************************************************************)
\* page.get_text() of a page without text: the page is skipped
NoText == -1

\* the PDFs: per page the number of words of its text, or NoText
Pdfs ==
    UNION {[1..n -> {NoText} \cup 0..MaxPageWords] : n \in 1..MaxPages}

\* the number of characters of each word of a document
WordLengths == {1, 11}

\* strategy.chunk_size and strategy.overlap are unvalidated integers; the
\* model takes overlap up to chunk_size
Strategies ==
    {s \in [chunk_size : 1..MaxChunkSize, overlap : 0..MaxChunkSize] :
        s.overlap <= s.chunk_size}

\* min_chunk_size: 100 against the default chunk_size 500, scaled
MinChunkSizes == {1, 3}

\* len(text) of a text of w words of word_length characters
TextLength(w, word_length) ==
    IF w <= 0 THEN 0 ELSE w * word_length + (w - 1)

\* the pages extract_text_from_pdf keeps, in order, under their 1-indexed
\* page numbers in the PDF
KeptPages(pdf) == {i \in DOMAIN pdf : pdf[i] # NoText}

\* extract_text_from_pdf: pages, total_pages and total_words
SumWords(pages_data, k) ==
    LET Sum[i \in 0..k] ==
            IF i = 0 THEN 0 ELSE Sum[i - 1] + pages_data[i].word_count
    IN  Sum[k]

ExtractTextFromPdf(pdf, word_length) ==
    LET kept == KeptPages(pdf)
        nth(k) == CHOOSE i \in kept : Cardinality({x \in kept : x < i}) = k - 1
        pages_data ==
            [k \in 1..Cardinality(kept) |->
               [page_number |-> nth(k),
                word_count |-> pdf[nth(k)],
                char_count |-> TextLength(pdf[nth(k)], word_length)]]
    IN  [pages |-> pages_data,
         total_pages |-> Len(pages_data),
         total_words |-> SumWords(pages_data, Len(pages_data))]

\* _build_page_positions: (page_number, start, end) per kept page, each page
\* taking len(text) + 2 characters
BuildPagePositions(pages_data) ==
    LET End[k \in 0..Len(pages_data)] ==
            IF k = 0 THEN 0 ELSE End[k - 1] + pages_data[k].char_count + 2
    IN  [k \in 1..Len(pages_data) |->
           [page_number |-> pages_data[k].page_number,
            start |-> End[k - 1], end |-> End[k]]]

\* _get_page_at_position: the page of the interval holding the position,
\* the last page when it lies beyond, 1 without pages
GetPageAtPosition(position, page_positions) ==
    LET M == {k \in DOMAIN page_positions :
                 /\ page_positions[k].start <= position
                 /\ position < page_positions[k].end}
    IN  IF M # {}
        THEN page_positions[CHOOSE k \in M : \A m \in M : k <= m].page_number
        ELSE IF Len(page_positions) > 0
             THEN page_positions[Len(page_positions)].page_number
             ELSE 1

Min(a, b) == IF a < b THEN a ELSE b
Max(a, b) == IF a > b THEN a ELSE b

\* the page is used as looked up
ClampPage_Unclamped(current_page, total_pages) == current_page

\* max(1, min(current_page, total_pages))
ClampPage(current_page, total_pages) == Max(1, Min(current_page, total_pages))

\* approx_char_position = word_index * 6
ApproxCharPosition(word_index) == word_index * 6

\* the step is always the full window
NextWordIndex_NoOverlap(word_index, chunk_size, overlap, total_words) ==
    word_index + chunk_size

\* "Move to next chunk with overlap"
NextWordIndex(word_index, chunk_size, overlap, total_words) ==
    IF overlap > 0 /\ word_index + chunk_size < total_words
    THEN word_index + chunk_size - overlap
    ELSE word_index + chunk_size

\* no chunking in progress
ChunkerIdle ==
    [pc |-> "idle", pages |-> <<>>, total_pages |-> 0, total_words |-> 0,
     chunk_size |-> 0, overlap |-> 0, min_chunk_size |-> 0,
     word_index |-> 0, chunks |-> <<>>]

\* create_semantic_chunks(extracted_data) up to the loop
CreateSemanticChunks(extracted_data, strategy, min_chunk_size) ==
    [pc |-> "loop", pages |-> extracted_data.pages,
     total_pages |-> extracted_data.total_pages,
     total_words |-> extracted_data.total_words,
     chunk_size |-> strategy.chunk_size, overlap |-> strategy.overlap,
     min_chunk_size |-> min_chunk_size, word_index |-> 0, chunks |-> <<>>]

\* len(chunk_words) of all_words[word_index:chunk_end]
ChunkWords(c) ==
    Min(c.word_index + c.chunk_size, c.total_words) - c.word_index

\* if len(chunk_words) < self.min_chunk_size and word_index > 0
TooSmall(c) == ChunkWords(c) < c.min_chunk_size /\ c.word_index > 0

\* one iteration of the loop that appends a chunk; first_word and
\* word_count stand for the chunk's text
ChunkerAppends ==
    /\ chunker.pc = "loop"
    /\ chunker.word_index < chunker.total_words
    /\ ~TooSmall(chunker)
    /\ Len(chunker.chunks) < MaxChunks
    /\ LET chunk ==
            [chunk_index |-> Len(chunker.chunks),
             page_number |->
                 ClampPage(GetPageAtPosition(
                               ApproxCharPosition(chunker.word_index),
                               BuildPagePositions(chunker.pages)),
                           chunker.total_pages),
             start_char |-> ApproxCharPosition(chunker.word_index),
             first_word |-> chunker.word_index,
             word_count |-> ChunkWords(chunker)]
       IN  chunker' = [chunker EXCEPT
                         !.chunks = Append(@, chunk),
                         !.word_index = NextWordIndex(@, chunker.chunk_size,
                                                      chunker.overlap,
                                                      chunker.total_words)]
    /\ UNCHANGED <<template, engine, search, indexVars, retry>>
    /\ UNCHANGED storeVars

\* "Skip if too small": break, and the chunks are returned
ChunkerBreaks ==
    /\ chunker.pc = "loop"
    /\ chunker.word_index < chunker.total_words
    /\ TooSmall(chunker)
    /\ chunker' = [chunker EXCEPT !.pc = "returned"]
    /\ UNCHANGED <<template, engine, search, indexVars, retry>>
    /\ UNCHANGED storeVars

\* the loop condition fails, and the chunks are returned
ChunkerReturns ==
    /\ chunker.pc = "loop"
    /\ chunker.word_index >= chunker.total_words
    /\ chunker' = [chunker EXCEPT !.pc = "returned"]
    /\ UNCHANGED <<template, engine, search, indexVars, retry>>
    /\ UNCHANGED storeVars

(***************************************************************************)
(* services/embedding_service.py: EmbeddingService.search_similar_chunks.  *)
(* A stored record is its chunk_index and the cosine similarity of its     *)
(* vector to the query, in tenths.                                         *)
(***************************************************************************)
Similarities == {2, 5, 9}

\* min_similarity: Optional[float], ge=0, le=1; None is kept apart from
\* the floats by a value outside their range
None == -1
MinSimilarities == {None, 3, 5}

\* top_k: ge=1
TopKs == 1..MaxStored

\* what collection.find(mongo_query) returns: the records of the chunks
\* 0..n-1 of the document, in the order the store yields them
StoredEmbeddings ==
    UNION {{[i \in 1..n |-> [chunk_index |-> order[i],
                              similarity |-> sim[order[i]]]] :
               order \in {f \in [1..n -> 0..(n - 1)] :
                             \A a, b \in 1..n : a # b => f[a] # f[b]},
               sim \in [0..(n - 1) -> Similarities]} :
           n \in 0..MaxStored}

\* if similarity >= query.min_similarity: results.append(...)
AboveThreshold(embeddings, min_similarity) ==
    SelectSeq(embeddings, LAMBDA emb : emb.similarity >= min_similarity)

\* results.sort(key=similarity_score): ascending, equal keys in list order
SortBySimilarity_Ascending(results) ==
    LET rank(i) == 1 + Cardinality({k \in DOMAIN results :
                        \/ results[k].similarity < results[i].similarity
                        \/ /\ results[k].similarity = results[i].similarity
                           /\ k < i})
    IN  [r \in DOMAIN results |->
           results[CHOOSE i \in DOMAIN results : rank(i) = r]]

\* results.sort(key=similarity_score, reverse=True): descending, equal keys
\* in list order (the sort is stable, also reversed)
SortBySimilarity(results) ==
    LET rank(i) == 1 + Cardinality({k \in DOMAIN results :
                        \/ results[k].similarity > results[i].similarity
                        \/ /\ results[k].similarity = results[i].similarity
                           /\ k < i})
    IN  [r \in DOMAIN results |->
           results[CHOOSE i \in DOMAIN results : rank(i) = r]]

\* results[:query.top_k]
TopK(results, top_k) == SubSeq(results, 1, Min(top_k, Len(results)))

\* no search in progress
SearchIdle ==
    [pc |-> "idle", embeddings |-> <<>>, top_k |-> 0, min_similarity |-> 0,
     results |-> <<>>]

\* search_similar_chunks(query) up to the similarity loop
SearchSimilarChunks(embeddings, top_k, min_similarity) ==
    [pc |-> "searching", embeddings |-> embeddings, top_k |-> top_k,
     min_similarity |-> min_similarity, results |-> <<>>]

\* filter, sort and truncate; the hits are returned
SearchReturns ==
    /\ search.pc = "searching"
    /\ search.min_similarity # None \/ search.embeddings = <<>>
    /\ search' = [search EXCEPT
                    !.pc = "returned",
                    !.results =
                        IF search.embeddings = <<>> THEN <<>>
                        ELSE TopK(SortBySimilarity(
                                      AboveThreshold(search.embeddings,
                                                     search.min_similarity)),
                                  search.top_k)]
    /\ UNCHANGED <<template, engine, chunker, indexVars, retry>>
    /\ UNCHANGED storeVars

\* similarity >= None: TypeError at the first record compared
SearchRaises ==
    /\ search.pc = "searching"
    /\ search.min_similarity = None
    /\ search.embeddings # <<>>
    /\ search' = [search EXCEPT !.pc = "raised"]
    /\ UNCHANGED <<template, engine, chunker, indexVars, retry>>
    /\ UNCHANGED storeVars

(***************************************************************************)
(* services/embedding_service.py: generate_embeddings_for_chunks and the   *)
(* db.embeddings collection.  A vector is identified by its cosine         *)
(* similarity to the run's query, in tenths; a chunk's text by a number.   *)
(***************************************************************************)
\* self.batch_size = 100, scaled to the chunk counts of the model
SelfBatchSize == 3

\* the engine runs that share the collection
Runs == {1, 2}

\* document ids
Documents == {1, 2}

\* any negative batch_size: range(0, len(chunks), batch_size) is empty
Negative == -2

\* batch_size: Optional[int] = None
BatchSizes == {None, Negative} \cup (0..(SelfBatchSize + 1))

\* the DocumentChunk objects pass 1 builds from the chunker's output
ChunkObjects(n) == [k \in 1..n |-> [chunk_index |-> k - 1, text |-> 99 + k]]

\* what the provider can answer for a batch: one vector per input, in order
Responses(batch) == [1..Len(batch) -> Similarities]

\* batch_size = batch_size or self.batch_size
EffectiveBatchSize(batch_size) ==
    IF batch_size = None \/ batch_size = 0 THEN SelfBatchSize ELSE batch_size

\* chunks[i:i + batch_size]
Batch(chunks, i, batch_size) ==
    SubSeq(chunks, i + 1, Min(i + batch_size, Len(chunks)))

\* embedding_docs: for chunk, embedding in zip(batch, embeddings); the ids
\* are those insert_many assigns
EmbeddingDocs(batch, embeddings, document_id, first_id) ==
    [k \in 1..Len(batch) |->
        [id |-> first_id + k - 1,
         document_id |-> document_id,
         chunk_index |-> batch[k].chunk_index,
         chunk_text |-> batch[k].text,
         embedding_vector |-> embeddings[k]]]

\* a run that has not called the embedding service
EmbedderIdle ==
    [pc |-> "idle", chunks |-> <<>>, document_id |-> 0, batch_size |-> 0,
     i |-> 0, embedding_ids |-> <<>>, returned |-> <<>>, before |-> 0,
     error |-> NoMsg, passes |-> 0, attempt |-> 0, owned |-> {},
     hits |-> <<>>]

\* nothing stored and no run in progress
IndexIdle ==
    /\ collection = <<>>
    /\ embedder = [r \in Runs |-> EmbedderIdle]

\* generate_embeddings_for_chunks(chunks, document_id, batch_size) up to
\* the batch loop; `returned' logs the provider's vectors by chunk position,
\* `before' the size of the collection at the call, and `owned' the ids of
\* the records the run has inserted in any of its passes
GenerateEmbeddingsForChunks(call, chunks, document_id, batch_size, stored) ==
    [call EXCEPT
        !.pc = IF chunks = <<>> THEN "raised" ELSE "batching",
        !.error = IF chunks = <<>> THEN "ValueError: empty chunks list"
                  ELSE NoMsg,
        !.chunks = chunks,
        !.document_id = document_id,
        !.batch_size = EffectiveBatchSize(batch_size),
        !.i = 0,
        !.embedding_ids = <<>>,
        !.returned = <<>>,
        !.before = Len(stored),
        !.passes = call.passes + 1,
        !.hits = <<>>]

\* one iteration of the batch loop: request, build the records, insert_many
EmbedBatch(r) ==
    LET call == embedder[r]
        batch == Batch(call.chunks, call.i, call.batch_size)
    IN  /\ call.pc = "batching"
        /\ call.batch_size > 0
        /\ call.i < Len(call.chunks)
        /\ Len(batch) <= SelfBatchSize
        /\ \E embeddings \in Responses(batch) :
              LET docs == EmbeddingDocs(batch, embeddings, call.document_id,
                                        Len(collection) + 1)
              IN  /\ collection' = collection \o docs
                  /\ embedder' = [embedder EXCEPT
                        ![r].i = call.i + call.batch_size,
                        ![r].embedding_ids =
                            call.embedding_ids \o
                            [k \in 1..Len(docs) |-> docs[k].id],
                        ![r].returned = call.returned \o embeddings,
                        ![r].owned =
                            call.owned \cup {docs[k].id : k \in 1..Len(docs)}]
        /\ UNCHANGED <<template, engine, chunker, search, retry>>
        /\ UNCHANGED storeVars

\* generate_embeddings_batch: len(texts) > self.batch_size raises ValueError
\* before the provider is called
EmbedBatchTooLarge(r) ==
    LET call == embedder[r]
        batch == Batch(call.chunks, call.i, call.batch_size)
    IN  /\ call.pc = "batching"
        /\ call.batch_size > 0
        /\ call.i < Len(call.chunks)
        /\ Len(batch) > SelfBatchSize
        /\ embedder' = [embedder EXCEPT
              ![r].pc = "raised",
              ![r].error = "ValueError: batch size exceeds maximum"]
        /\ UNCHANGED <<template, engine, chunker, search, collection, retry>>
        /\ UNCHANGED storeVars

\* client.embeddings.create raises: the provider fails for this batch
EmbedProviderFails(r) ==
    LET call == embedder[r]
        batch == Batch(call.chunks, call.i, call.batch_size)
    IN  /\ call.pc = "batching"
        /\ call.batch_size > 0
        /\ call.i < Len(call.chunks)
        /\ Len(batch) <= SelfBatchSize
        /\ embedder' = [embedder EXCEPT
              ![r].pc = "raised",
              ![r].error = "provider"]
        /\ UNCHANGED <<template, engine, chunker, search, collection, retry>>
        /\ UNCHANGED storeVars

\* the range is exhausted: return embedding_ids
EmbedReturns(r) ==
    LET call == embedder[r]
    IN  /\ call.pc = "batching"
        /\ call.batch_size < 0 \/ call.i >= Len(call.chunks)
        /\ embedder' = [embedder EXCEPT ![r].pc = "returned"]
        /\ UNCHANGED <<template, engine, chunker, search, collection, retry>>
        /\ UNCHANGED storeVars

(***************************************************************************)
(* services/processing_engine.py: the indexing (pass 1) and the retrieval  *)
(* (pass 2) of a run, over the shared collection.                          *)
(***************************************************************************)
\* min_similarity=0.3, in tenths
SearchMinSimilarity == 3

\* collection.find({}): the records of every document
FindByDocument_Unscoped(stored, document_id) == stored

\* collection.find({"document_id": ObjectId(query.document_id)})
FindByDocument(stored, document_id) ==
    SelectSeq(stored, LAMBDA emb : emb.document_id = document_id)

\* cosine_similarity(query_vector, emb["embedding_vector"]) of each record
WithSimilarity(embeddings) ==
    [k \in 1..Len(embeddings) |->
        [embedding_id |-> embeddings[k].id,
         document_id |-> embeddings[k].document_id,
         chunk_index |-> embeddings[k].chunk_index,
         similarity |-> embeddings[k].embedding_vector]]

\* search_similar_chunks(query) with query.document_id set
SearchHits(stored, document_id, top_k, min_similarity) ==
    TopK(SortBySimilarity(
             AboveThreshold(WithSimilarity(FindByDocument(stored, document_id)),
                            min_similarity)),
         top_k)

\* _pass_1_index_document of the given execution of the run: the chunks of
\* the document are handed to generate_embeddings_for_chunks with the
\* default batch size
RunIndexes(r, n, attempt) ==
    /\ embedder[r].attempt # attempt
    /\ embedder' = [embedder EXCEPT ![r] =
          GenerateEmbeddingsForChunks(
              [embedder[r] EXCEPT !.attempt = attempt], ChunkObjects(n),
              embedder[r].document_id, None, collection)]
    /\ UNCHANGED <<template, engine, chunker, search, collection, retry>>
    /\ UNCHANGED storeVars

\* _pass_2_query_relevant_chunks: the section's search, scoped to the
\* document of the run
RunSearches(r) ==
    /\ embedder[r].pc = "returned"
    /\ embedder' = [embedder EXCEPT
          ![r].pc = "searched",
          ![r].hits = SearchHits(collection, embedder[r].document_id,
                                 SearchTopK, SearchMinSimilarity)]
    /\ UNCHANGED <<template, engine, chunker, search, collection, retry>>
    /\ UNCHANGED storeVars

(***************************************************************************)
(* services/embedding_service.py: cosine_similarity, in binary floating    *)
(* point rounded to nearest, ties to even.  A float is m * 2^e with a      *)
(* mantissa m of Precision bits (or m = 0); the exponent is not bounded.   *)
(* Python's float has 53 bits; the model keeps the rounding of every       *)
(* operation and shortens the mantissa.                                    *)
(***************************************************************************)
Precision == 5

\* the components of the vectors: integers, exact as floats
Components == (0 - MaxComponent)..MaxComponent
Vectors == [1..2 -> Components]

Zero == [m |-> 0, e |-> 0]
One == [m |-> 2^(Precision - 1), e |-> 1 - Precision]

RECURSIVE Normalize(_, _)
\* the float of the value m * 2^e, for m below 2^Precision
Normalize(m, e) ==
    IF m = 0 THEN Zero
    ELSE IF m < 2^(Precision - 1) THEN Normalize(2 * m, e - 1)
    ELSE [m |-> m, e |-> e]

\* the float nearest to a value of n * 2^e or, with `sticky', just above it
RoundToNearest(n, sticky, e) ==
    IF n < 2^Precision THEN Normalize(n, e)
    ELSE LET k == CHOOSE k \in 1..(30 - Precision) :
                      2^(Precision + k - 1) <= n /\ n < 2^(Precision + k)
             q == n \div 2^k
             r == n % 2^k
             half == 2^(k - 1)
             up == \/ r > half
                   \/ r = half /\ sticky
                   \/ r = half /\ q % 2 = 1
             rounded == IF up THEN q + 1 ELSE q
         IN  IF rounded = 2^Precision
             THEN [m |-> 2^(Precision - 1), e |-> e + k + 1]
             ELSE [m |-> rounded, e |-> e + k]

\* a * b
Mul(a, b) ==
    IF a.m = 0 \/ b.m = 0 THEN Zero
    ELSE RoundToNearest(a.m * b.m, FALSE, a.e + b.e)

\* a / b for a, b > 0
Div(a, b) ==
    LET n == a.m * 2^(Precision + 1)
    IN  RoundToNearest(n \div b.m, n % b.m # 0, a.e - b.e - (Precision + 1))

\* math.sqrt(a)
Sqrt(a) ==
    IF a.m = 0 THEN Zero
    ELSE LET k == IF (a.e - (Precision - 1)) % 2 = 0 THEN Precision - 1
                  ELSE Precision
             y == a.m * 2^k
             s == CHOOSE s \in 2^(Precision - 1)..2^Precision :
                      s * s <= y /\ y < (s + 1) * (s + 1)
             root == IF y > s * s + s THEN s + 1 ELSE s
         IN  RoundToNearest(root, FALSE, (a.e - k) \div 2)

\* a > 1.0
GreaterThanOne(a) ==
    /\ a.m # 0
    /\ \/ a.e > 1 - Precision
       \/ a.e = 1 - Precision /\ a.m > 2^(Precision - 1)

\* sum(a * b for a, b in zip(vec1, vec2)), as an integer: the products and
\* the partial sums of components this small are exact
DotProduct(vec1, vec2) == vec1[1] * vec2[1] + vec1[2] * vec2[2]

\* the float of a non-negative integer
Float(n) == RoundToNearest(n, FALSE, 0)

\* cosine_similarity(vec1, vec2)
CosineSimilarity(vec1, vec2) ==
    LET dot_product == DotProduct(vec1, vec2)
        magnitude1 == Sqrt(Float(DotProduct(vec1, vec1)))
        magnitude2 == Sqrt(Float(DotProduct(vec2, vec2)))
    IN  IF magnitude1 = Zero \/ magnitude2 = Zero THEN Zero
        ELSE IF dot_product <= 0 THEN Zero
        ELSE LET similarity ==
                     Div(Float(dot_product), Mul(magnitude1, magnitude2))
             IN  IF GreaterThanOne(similarity) THEN One ELSE similarity

\* a call of cosine_similarity, held where the search that computes it is
CosineCall(vec1, vec2) ==
    [pc |-> "cosine", vec1 |-> vec1, vec2 |-> vec2, similarity |-> Zero]

\* cosine_similarity returns
CosineReturns ==
    /\ search.pc = "cosine"
    /\ search' = [search EXCEPT
                    !.pc = "cosine returned",
                    !.similarity = CosineSimilarity(search.vec1, search.vec2)]
    /\ UNCHANGED <<template, engine, chunker, indexVars, retry>>
    /\ UNCHANGED storeVars

(***************************************************************************)
(* routes/summaries.py: retry_failed_summary, one action per database      *)
(* operation.  The request carries what the document and template lookups  *)
(* find.                                                                   *)
(***************************************************************************)
\* get_document_by_user: None, or the document with its status
DocumentLookups == {"missing", "pending", "processing", "completed", "failed"}

\* no retry request
RetryIdle ==
    [pc |-> "idle", summary_id |-> NoSummary, document |-> "missing",
     template |-> FALSE, status |-> "", job_id |-> 0, detail |-> ""]

\* a retry request that has not read the store
RetryRequest(document, template_found) ==
    [RetryIdle EXCEPT !.pc = "requested", !.document = document,
                      !.template = template_found]

\* the summary is retried whatever its status
CanRetry_AnyStatus(summary) == TRUE

\* summary["status"] != SummaryStatus.FAILED raises 400
CanRetry(summary) == summary.status = FAILED

\* ObjectId(): an id no job has
NewJobId(db_jobs) ==
    CHOOSE id \in 1..(Cardinality(DOMAIN db_jobs) + 1) : id \notin DOMAIN db_jobs

\* find_one of a summary that is not in the store: 404
RetryNotFound ==
    /\ retry.pc = "requested"
    /\ retry' = [retry EXCEPT !.pc = "rejected",
                              !.detail = "Summary not found"]
    /\ UNCHANGED <<template, engine, chunker, search, indexVars>>
    /\ UNCHANGED storeVars

\* find_one and the status check
RetryFinds ==
    /\ retry.pc = "requested"
    /\ \E s \in DOMAIN summaries :
          retry' = [retry EXCEPT
              !.summary_id = s,
              !.status = summaries[s].status,
              !.pc = IF CanRetry(summaries[s]) THEN "found" ELSE "rejected",
              !.detail = IF CanRetry(summaries[s]) THEN ""
                         ELSE "Can only retry failed summaries"]
    /\ UNCHANGED <<template, engine, chunker, search, indexVars>>
    /\ UNCHANGED storeVars

\* "Verify document still exists and is ready", "Verify template still
\* exists"
RetryVerifies ==
    /\ retry.pc = "found"
    /\ retry' = [retry EXCEPT
          !.pc = IF retry.document = "completed" /\ retry.template
                 THEN "verified" ELSE "rejected",
          !.detail = IF retry.document = "missing"
                     THEN "Original document not found"
                     ELSE IF retry.document # "completed"
                     THEN "Document must be 'completed' to retry"
                     ELSE IF ~retry.template
                     THEN "Template not found"
                     ELSE ""]
    /\ UNCHANGED <<template, engine, chunker, search, indexVars>>
    /\ UNCHANGED storeVars

\* "Delete the old failed summary"
RetryDeletes ==
    /\ retry.pc = "verified"
    /\ summaries' = [s \in DOMAIN summaries \ {retry.summary_id} |->
                        summaries[s]]
    /\ retry' = [retry EXCEPT !.pc = "deleted"]
    /\ quiet' = FALSE
    /\ UNCHANGED <<template, engine, chunker, search, indexVars>>
    /\ UNCHANGED <<now, jobs, wpc, wattempt, wsummary, werr, cpc,
                   sweepPc, sweepIds, sweepMod, sweepRet>>

\* "Create new job record" and "Start Celery task"
RetryCreatesJob ==
    /\ retry.pc = "deleted"
    /\ LET job_id == NewJobId(jobs)
       IN  /\ jobs' = (job_id :> NewJob(now)) @@ jobs
           /\ wpc' = (job_id :> "queued") @@ wpc
           /\ wattempt' = (job_id :> 1) @@ wattempt
           /\ wsummary' = (job_id :> NoSummary) @@ wsummary
           /\ werr' = (job_id :> NoMsg) @@ werr
           /\ cpc' = (job_id :> "idle") @@ cpc
           /\ retry' = [retry EXCEPT !.pc = "accepted", !.job_id = job_id]
    /\ quiet' = FALSE
    /\ UNCHANGED <<template, engine, chunker, search, indexVars>>
    /\ UNCHANGED <<now, summaries, sweepPc, sweepIds, sweepMod, sweepRet>>

(***************************************************************************)
(* The clock.                                                              *)
(***************************************************************************)
\* the instants at which the model observes utcnow(): those within a minute
\* of a multiple of the timeout
TimePoints ==
    {t \in 0..(MaxPeriods * TimeoutMinutes + 1) : t % TimeoutMinutes \in {0, 1, TimeoutMinutes - 1}}

Tick ==
    /\ \E t \in TimePoints : t > now /\ now' = t
    /\ quiet' = FALSE
    /\ UNCHANGED engineVars
    /\ UNCHANGED <<jobs, summaries, wpc, wattempt, wsummary, werr, cpc,
                   sweepPc, sweepIds, sweepMod, sweepRet>>

(***************************************************************************)
(* Spec: one job, created by create_summary at time 0, its task queued.     *)
(* Every write of the tasks and of cancel_job is keyed by the job's id.     *)
(***************************************************************************)
TheJob == 1

SweepInit ==
    /\ sweepPc = [s \in Sweepers |-> "idle"]
    /\ sweepIds = [s \in Sweepers |-> {}]
    /\ sweepMod = [s \in Sweepers |-> 0]
    /\ sweepRet = [s \in Sweepers |-> 0]
    /\ quiet = FALSE

\* no chunking, no search and no indexing in progress; nothing stored
ServicesIdle ==
    /\ chunker = ChunkerIdle
    /\ search = SearchIdle
    /\ IndexIdle
    /\ retry = RetryIdle

Init ==
    /\ now = 0
    /\ jobs = [j \in {TheJob} |-> NewJob(0)]
    /\ summaries = <<>>
    /\ wpc = [j \in {TheJob} |-> "queued"]
    /\ wattempt = [j \in {TheJob} |-> 1]
    /\ wsummary = [j \in {TheJob} |-> NoSummary]
    /\ werr = [j \in {TheJob} |-> NoMsg]
    /\ cpc = [j \in {TheJob} |-> "idle"]
    /\ SweepInit
    /\ ServicesIdle
    /\ template = <<>>
    /\ engine = EngineIdle

Sweep == \E s \in Sweepers :
    SweepDetect(s) \/ SweepFailJobs(s) \/ SweepFailSummaries(s)

Task == \E j \in JobIds :
    \/ TaskStart(j) \/ TaskLookupFails(j) \/ TaskCreateSummary(j)
    \/ TaskProgress(j) \/ TaskProcessingReturns(j) \/ TaskProcessingRaises(j)
    \/ TaskCompleteSummary(j) \/ TaskCompleteJob(j)
    \/ TaskFailJob(j) \/ TaskFailSummary(j) \/ WorkerLost(j)

Cancel == \E j \in JobIds : CancelCheck(j) \/ CancelWrite(j)

Next == Task \/ Cancel \/ Sweep \/ Tick

Spec == Init /\ [][Next]_vars

(***************************************************************************)
(* SpecBulk: a store whose tasks are lost, at time 2: one job in any       *)
(* status, last updated at 0, 1 or 2, followed by Running jobs last        *)
(* updated at 0.  Only the sweeps and the clock act.                       *)
(***************************************************************************)
BulkSizes == {n \in 1..MaxBulkJobs : n <= 3 \/ n >= DetectLimit}

\* a job document as generate_summary_task / cancel_job leave it in status st
JobSnapshot(j, st, t) ==
    CASE st = PENDING   -> NewJob(t)
      [] st = RUNNING   -> [NewJob(t) EXCEPT !.status = RUNNING, !.progress = 10]
      [] st = COMPLETED -> [NewJob(t) EXCEPT !.status = COMPLETED, !.progress = 100,
                                             !.summary_id = SummaryId(j, 1),
                                             !.completed_at = t]
      [] st = FAILED    -> [NewJob(t) EXCEPT !.status = FAILED, !.progress = 10,
                               !.error_message = UserFriendlyMessage(TimeoutExhaustedMessage),
                               !.completed_at = t]
      [] st = CANCELLED -> [NewJob(t) EXCEPT !.status = CANCELLED, !.progress = 10,
                                             !.completed_at = t]

\* the summary document of such a job
SummarySnapshot(j, st, t) ==
    CASE st = COMPLETED -> [NewSummary(j) EXCEPT !.status = COMPLETED,
                                                 !.completed_at = t]
      [] st = FAILED    -> [NewSummary(j) EXCEPT !.status = FAILED,
                               !.error_message = UserFriendlyMessage(TimeoutExhaustedMessage),
                               !.completed_at = t]
      [] OTHER          -> NewSummary(j)

InitBulk ==
    /\ now = 2
    /\ \E n \in BulkSizes, st \in JobStatus, t \in {0, 1, 2} :
        /\ jobs = [j \in 1..n |-> IF j = 1 THEN JobSnapshot(j, st, t)
                                           ELSE JobSnapshot(j, RUNNING, 0)]
        /\ summaries = [x \in {SummaryId(j, 1) : j \in 1..n \ {IF st = PENDING THEN 1 ELSE 0}} |->
                          IF x[1] = 1 THEN SummarySnapshot(1, st, t)
                                      ELSE SummarySnapshot(x[1], RUNNING, 0)]
        /\ wpc = [j \in 1..n |-> "lost"]
        /\ wattempt = [j \in 1..n |-> 1]
        /\ wsummary = [j \in 1..n |-> NoSummary]
        /\ werr = [j \in 1..n |-> NoMsg]
        /\ cpc = [j \in 1..n |-> "idle"]
    /\ SweepInit
    /\ ServicesIdle
    /\ template = <<>>
    /\ engine = EngineIdle

NextBulk == Sweep \/ Tick

SpecBulk == InitBulk /\ [][NextBulk]_vars

\* the beat schedule runs cleanup_stuck_jobs_task every 300 s, and time passes
SpecBulkLive ==
    /\ SpecBulk
    /\ WF_vars(Tick)
    /\ \A s \in Sweepers : /\ WF_vars(SweepDetect(s))
                           /\ WF_vars(SweepFailJobs(s))
                           /\ WF_vars(SweepFailSummaries(s))

(***************************************************************************)
(* SpecEngine: one process_document run over a template; the store idles.  *)
(***************************************************************************)
InitEngine ==
    /\ now = 0
    /\ jobs = <<>>
    /\ summaries = <<>>
    /\ wpc = <<>>
    /\ wattempt = <<>>
    /\ wsummary = <<>>
    /\ werr = <<>>
    /\ cpc = <<>>
    /\ SweepInit
    /\ ServicesIdle
    /\ template \in Templates
    /\ \E progress_callback \in BOOLEAN : engine = ProcessDocument(progress_callback)

NextEngine ==
    \/ Pass1Returns \/ Pass1Raises \/ Pass2Returns \/ Pass2Raises
    \/ Pass3NoChunks \/ Pass3AttemptReturns \/ Pass3AttemptFails
    \/ Pass4Assemble

SpecEngine == InitEngine /\ [][NextEngine]_vars

(***************************************************************************)
(* SpecRegenerate: one regenerate_section call for a title, over a         *)
(* template that may hold the title once, twice or not at all.             *)
(***************************************************************************)
\* two sections of one title: titles are not validated to be unique
RegenerateTemplates ==
    Templates \cup {<<[title |-> Titles[1], order |-> 1],
                      [title |-> Titles[1], order |-> 2]>>}

InitRegenerate ==
    /\ now = 0
    /\ jobs = <<>>
    /\ summaries = <<>>
    /\ wpc = <<>>
    /\ wattempt = <<>>
    /\ wsummary = <<>>
    /\ werr = <<>>
    /\ cpc = <<>>
    /\ SweepInit
    /\ ServicesIdle
    /\ template \in RegenerateTemplates
    /\ \E t \in {Titles[i] : i \in 1..MaxSections}, ix \in IndexingResults :
          engine = [EngineStart EXCEPT !.pc = "regenerate",
                                       !.mode = "regenerate", !.title = t,
                                       !.indexing = ix, !.trace = <<>>]

NextRegenerate ==
    \/ RegenerateFinds \/ RegenerateRaises
    \/ Pass2Returns \/ Pass2Raises
    \/ Pass3NoChunks \/ Pass3AttemptReturns \/ Pass3AttemptFails
    \/ RegenerateReturns

SpecRegenerate == InitRegenerate /\ [][NextRegenerate]_vars

(***************************************************************************)
(* SpecRun: one job whose task executions run the engine over a template.  *)
(***************************************************************************)
InitRun ==
    /\ now = 0
    /\ jobs = [j \in {TheJob} |-> NewJob(0)]
    /\ summaries = <<>>
    /\ wpc = [j \in {TheJob} |-> "queued"]
    /\ wattempt = [j \in {TheJob} |-> 1]
    /\ wsummary = [j \in {TheJob} |-> NoSummary]
    /\ werr = [j \in {TheJob} |-> NoMsg]
    /\ cpc = [j \in {TheJob} |-> "idle"]
    /\ SweepInit
    /\ ServicesIdle
    /\ template \in Templates
    /\ engine = EngineIdle

\* asyncio.run(run_processing()): the engine runs inside the task execution
RunEngine == wpc[TheJob] = "processing" /\ NextEngine

NextRun == Task \/ RunEngine

SpecRun == InitRun /\ [][NextRun]_vars

(***************************************************************************)
(* app/tasks.py regenerate_section_task, one action per database           *)
(* operation; the task has no autoretry.                                   *)
(***************************************************************************)
SummaryNotFoundMessage == <<"Summary not found: ", "summary_id">>

\* the ValueErrors of the three find_one lookups
RegenerateLookupErrors ==
    {SummaryNotFoundMessage, DocumentNotFoundMessage, TemplateNotFoundMessage}

\* def regenerate_section(self, document_id, section_title, template,
\* indexing_result): the parameters after self, none with a default
RegenerateSectionParameters ==
    {"document_id", "section_title", "template", "indexing_result"}

\* the keywords of the call in run_regeneration
RegenerateSectionKeywords ==
    {"document_id", "file_path", "template", "section_title"}

\* a call by keywords binds when every keyword names a parameter and every
\* parameter without a default is given
BindsArguments(parameters, keywords) ==
    keywords \subseteq parameters /\ parameters \subseteq keywords

\* the TypeError of a call that does not bind: the first offending keyword
\* is reported, else the missing parameters
ArgumentsErrorMessage(parameters, keywords) ==
    IF keywords \ parameters # {}
    THEN <<"regenerate_section() got an unexpected keyword argument", keywords \ parameters>>
    ELSE <<"regenerate_section() missing required positional arguments", parameters \ keywords>>

\* the summary document a completed generate_summary_task left for a template
StoredSummary(sections) ==
    [job_id |-> 0, status |-> COMPLETED, error_message |-> NoMsg,
     completed_at |-> 0, updated_at |-> 0,
     sections |-> [i \in DOMAIN sections |->
                     SectionResult(sections[i], <<"Old content">>, <<>>)]]

\* {"$set": {"sections.$": ...}} under the filter {"sections.title": title}:
\* the first array element of that title is replaced; no element, no match
ReplaceMatchedSection(sections, section_title, updated_section) ==
    LET k == FindSection(sections, section_title)
    IN  IF k = 0 THEN sections ELSE [sections EXCEPT ![k] = updated_section]

\* "Update job status to RUNNING"
RegenerateTaskStart(j) ==
    /\ wpc[j] = "regenerateQueued"
    /\ jobs' = [jobs EXCEPT ![j].status = RUNNING,
                            ![j].progress = 0,
                            ![j].updated_at = now]
    /\ wpc' = [wpc EXCEPT ![j] = "regenerateStarted"]
    /\ UNCHANGED engineVars
    /\ UNCHANGED <<now, summaries, wattempt, wsummary, werr, cpc,
                   sweepPc, sweepIds, sweepMod, sweepRet, quiet>>

\* summary, document or template not found: ValueError
RegenerateTaskLookupFails(j) ==
    /\ wpc[j] = "regenerateStarted"
    /\ \E e \in RegenerateLookupErrors : werr' = [werr EXCEPT ![j] = e]
    /\ wpc' = [wpc EXCEPT ![j] = "regenerateExcept"]
    /\ UNCHANGED engineVars
    /\ UNCHANGED <<now, jobs, summaries, wattempt, wsummary, cpc,
                   sweepPc, sweepIds, sweepMod, sweepRet, quiet>>

\* the three lookups succeed and the PDF is downloaded to a temporary file
RegenerateTaskDownloads(j) ==
    /\ wpc[j] = "regenerateStarted"
    /\ wpc' = [wpc EXCEPT ![j] = "regenerateCalling"]
    /\ UNCHANGED engineVars
    /\ UNCHANGED <<now, jobs, summaries, wattempt, wsummary, werr, cpc,
                   sweepPc, sweepIds, sweepMod, sweepRet, quiet>>

\* asyncio.run(run_regeneration()): await engine.regenerate_section(
\* document_id=, file_path=, template=, section_title=)
RegenerateTaskCalls(j) ==
    /\ wpc[j] = "regenerateCalling"
    /\ IF BindsArguments(RegenerateSectionParameters, RegenerateSectionKeywords)
       THEN /\ \E ix \in IndexingResults :
                  engine' = [engine EXCEPT !.pc = "regenerate", !.indexing = ix]
            /\ wpc' = [wpc EXCEPT ![j] = "regenerating"]
            /\ UNCHANGED werr
       ELSE /\ werr' = [werr EXCEPT ![j] =
                          ArgumentsErrorMessage(RegenerateSectionParameters,
                                                RegenerateSectionKeywords)]
            /\ wpc' = [wpc EXCEPT ![j] = "regenerateExcept"]
            /\ UNCHANGED engine
    /\ UNCHANGED runVars
    /\ UNCHANGED <<now, jobs, summaries, wattempt, wsummary, cpc,
                   sweepPc, sweepIds, sweepMod, sweepRet, quiet>>

\* the engine call returns new_section
RegenerateTaskReturns(j) ==
    /\ wpc[j] = "regenerating"
    /\ engine.pc = "returned"
    /\ wpc' = [wpc EXCEPT ![j] = "regenerated"]
    /\ UNCHANGED engineVars
    /\ UNCHANGED <<now, jobs, summaries, wattempt, wsummary, werr, cpc,
                   sweepPc, sweepIds, sweepMod, sweepRet, quiet>>

\* the engine call raises
RegenerateTaskRaises(j) ==
    /\ wpc[j] = "regenerating"
    /\ engine.pc = "failed"
    /\ werr' = [werr EXCEPT ![j] = engine.raised.message]
    /\ wpc' = [wpc EXCEPT ![j] = "regenerateExcept"]
    /\ UNCHANGED engineVars
    /\ UNCHANGED <<now, jobs, summaries, wattempt, wsummary, cpc,
                   sweepPc, sweepIds, sweepMod, sweepRet, quiet>>

\* "Update section in summary"
RegenerateTaskWritesSection(j) ==
    /\ wpc[j] = "regenerated"
    /\ summaries' = [summaries EXCEPT
                       ![wsummary[j]].sections =
                           ReplaceMatchedSection(@, engine.title, engine.returned),
                       ![wsummary[j]].updated_at = now]
    /\ wpc' = [wpc EXCEPT ![j] = "sectionWritten"]
    /\ UNCHANGED engineVars
    /\ UNCHANGED <<now, jobs, wattempt, wsummary, werr, cpc,
                   sweepPc, sweepIds, sweepMod, sweepRet, quiet>>

\* "Update job status to COMPLETED"
RegenerateTaskCompletesJob(j) ==
    /\ wpc[j] = "sectionWritten"
    /\ jobs' = [jobs EXCEPT ![j].status = COMPLETED,
                            ![j].progress = 100,
                            ![j].completed_at = now,
                            ![j].updated_at = now]
    /\ wpc' = [wpc EXCEPT ![j] = "done"]
    /\ UNCHANGED engineVars
    /\ UNCHANGED <<now, summaries, wattempt, wsummary, werr, cpc,
                   sweepPc, sweepIds, sweepMod, sweepRet, quiet>>

\* except clause: "Update job status to FAILED", then raise
RegenerateTaskFailsJob(j) ==
    /\ wpc[j] = "regenerateExcept"
    /\ jobs' = [jobs EXCEPT ![j].status = FAILED,
                            ![j].error_message = UserFriendlyMessage(werr[j]),
                            ![j].completed_at = now,
                            ![j].updated_at = now]
    /\ wpc' = [wpc EXCEPT ![j] = "raised"]
    /\ UNCHANGED engineVars
    /\ UNCHANGED <<now, summaries, wattempt, wsummary, werr, cpc,
                   sweepPc, sweepIds, sweepMod, sweepRet, quiet>>

(***************************************************************************)
(* SpecRegenerateTask: one regenerate_section_task execution for a summary *)
(* whose sections were generated over the template, and the clock.         *)
(***************************************************************************)
InitRegenerateTask ==
    /\ now = 0
    /\ jobs = [j \in {TheJob} |-> NewJob(0)]
    /\ template \in RegenerateTemplates
    /\ summaries = (SummaryId(TheJob, 0) :> StoredSummary(template))
    /\ wpc = [j \in {TheJob} |-> "regenerateQueued"]
    /\ wattempt = [j \in {TheJob} |-> 1]
    /\ wsummary = [j \in {TheJob} |-> SummaryId(TheJob, 0)]
    /\ werr = [j \in {TheJob} |-> NoMsg]
    /\ cpc = [j \in {TheJob} |-> "idle"]
    /\ SweepInit
    /\ ServicesIdle
    /\ \E t \in {Titles[i] : i \in 1..MaxSections} :
          engine = [EngineIdle EXCEPT !.mode = "regenerate", !.title = t,
                                      !.trace = <<>>]

RegenerateTask == \E j \in JobIds :
    \/ RegenerateTaskStart(j) \/ RegenerateTaskLookupFails(j)
    \/ RegenerateTaskDownloads(j) \/ RegenerateTaskCalls(j)
    \/ (wpc[j] = "regenerating" /\ NextRegenerate)
    \/ RegenerateTaskReturns(j) \/ RegenerateTaskRaises(j)
    \/ RegenerateTaskWritesSection(j) \/ RegenerateTaskCompletesJob(j)
    \/ RegenerateTaskFailsJob(j)

NextRegenerateTask == RegenerateTask \/ Tick

SpecRegenerateTask == InitRegenerateTask /\ [][NextRegenerateTask]_vars

(***************************************************************************)
(* SpecWrites: every writer of db.jobs over one job: the job is that of a   *)
(* summary generation or that of a section regeneration, with cancel_job,  *)
(* the sweepers and the clock.                                             *)
(***************************************************************************)
InitWrites == Init \/ InitRegenerateTask

NextWrites == Next \/ RegenerateTask

SpecWrites == InitWrites /\ [][NextWrites]_vars

(***************************************************************************)
(* SpecChunker: one create_semantic_chunks call over the text extracted    *)
(* from a PDF, under a strategy.                                           *)
(***************************************************************************)
InitChunker ==
    /\ now = 0
    /\ jobs = <<>>
    /\ summaries = <<>>
    /\ wpc = <<>>
    /\ wattempt = <<>>
    /\ wsummary = <<>>
    /\ werr = <<>>
    /\ cpc = <<>>
    /\ SweepInit
    /\ template = <<>>
    /\ engine = EngineIdle
    /\ search = SearchIdle
    /\ IndexIdle
    /\ retry = RetryIdle
    /\ \E pdf \in Pdfs, word_length \in WordLengths, strategy \in Strategies,
          min_chunk_size \in MinChunkSizes :
          chunker = CreateSemanticChunks(ExtractTextFromPdf(pdf, word_length),
                                         strategy, min_chunk_size)

NextChunker == ChunkerAppends \/ ChunkerBreaks \/ ChunkerReturns

SpecChunker == InitChunker /\ [][NextChunker]_vars

(***************************************************************************)
(* SpecSearch: one search_similar_chunks call over the stored embeddings   *)
(* of a document.                                                          *)
(***************************************************************************)
InitSearch ==
    /\ now = 0
    /\ jobs = <<>>
    /\ summaries = <<>>
    /\ wpc = <<>>
    /\ wattempt = <<>>
    /\ wsummary = <<>>
    /\ werr = <<>>
    /\ cpc = <<>>
    /\ SweepInit
    /\ template = <<>>
    /\ engine = EngineIdle
    /\ chunker = ChunkerIdle
    /\ IndexIdle
    /\ retry = RetryIdle
    /\ \E embeddings \in StoredEmbeddings, top_k \in TopKs,
          min_similarity \in MinSimilarities :
          search = SearchSimilarChunks(embeddings, top_k, min_similarity)

NextSearch == SearchReturns \/ SearchRaises

SpecSearch == InitSearch /\ [][NextSearch]_vars

(***************************************************************************)
(* SpecEmbed: one generate_embeddings_for_chunks call, for every chunk     *)
(* count, batch size and provider answer, into a collection that is empty  *)
(* or holds a record of another document.                                  *)
(***************************************************************************)
StoreUnused ==
    /\ now = 0
    /\ jobs = <<>>
    /\ summaries = <<>>
    /\ wpc = <<>>
    /\ wattempt = <<>>
    /\ wsummary = <<>>
    /\ werr = <<>>
    /\ cpc = <<>>
    /\ SweepInit
    /\ retry = RetryIdle

InitEmbed ==
    /\ StoreUnused
    /\ template = <<>>
    /\ engine = EngineIdle
    /\ chunker = ChunkerIdle
    /\ search = SearchIdle
    /\ \E n \in 0..MaxEmbedChunks, document_id \in Documents,
          batch_size \in BatchSizes, stored \in 0..1 :
          /\ collection =
                EmbeddingDocs(ChunkObjects(stored), <<5>>,
                              CHOOSE d \in Documents : d # document_id, 1)
          /\ embedder =
                [r \in Runs |->
                    IF r = 1
                    THEN GenerateEmbeddingsForChunks(
                             EmbedderIdle, ChunkObjects(n), document_id,
                             batch_size, collection)
                    ELSE EmbedderIdle]

Embed(r) ==
    \/ EmbedBatch(r) \/ EmbedBatchTooLarge(r)
    \/ EmbedProviderFails(r) \/ EmbedReturns(r)

\* the steps of a call with the default batch size, under which no batch
\* exceeds self.batch_size
EmbedDefault(r) == EmbedBatch(r) \/ EmbedProviderFails(r) \/ EmbedReturns(r)

NextEmbed == \E r \in Runs : Embed(r)

SpecEmbed == InitEmbed /\ [][NextEmbed]_vars

(***************************************************************************)
(* SpecConcurrent: two generate_summary_task executions on two different   *)
(* documents, run by two workers; each indexes its document and searches   *)
(* it while the other does the same.  The synthesis is abstracted to its   *)
(* outcome.                                                                *)
(***************************************************************************)
ConcurrentChunkCounts == 1..2

InitConcurrent ==
    /\ now = 0
    /\ jobs = [j \in Runs |-> NewJob(0)]
    /\ summaries = <<>>
    /\ wpc = [j \in Runs |-> "queued"]
    /\ wattempt = [j \in Runs |-> 1]
    /\ wsummary = [j \in Runs |-> NoSummary]
    /\ werr = [j \in Runs |-> NoMsg]
    /\ cpc = [j \in Runs |-> "idle"]
    /\ SweepInit
    /\ template = <<>>
    /\ engine = EngineIdle
    /\ chunker = ChunkerIdle
    /\ search = SearchIdle
    /\ retry = RetryIdle
    /\ collection = <<>>
    /\ \E documents \in [Runs -> Documents] :
          /\ \A r, q \in Runs : r # q => documents[r] # documents[q]
          /\ embedder = [r \in Runs |->
                [EmbedderIdle EXCEPT !.document_id = documents[r]]]

\* the steps of the run of job j inside asyncio.run(run_processing())
RunOfTask(j) ==
    /\ wpc[j] = "processing"
    /\ \/ \E n \in ConcurrentChunkCounts : RunIndexes(j, n, wattempt[j])
       \/ (embedder[j].attempt = wattempt[j] /\ EmbedDefault(j))
       \/ (embedder[j].attempt = wattempt[j] /\ RunSearches(j))

\* the task of job j; the run returns once its search is done.  The model
\* follows the first MaxExecutions executions of each task: a task re-queued
\* after the last of them waits for its countdown
ConcurrentTask(j) ==
    \/ (wattempt[j] <= MaxExecutions /\ TaskStart(j))
    \/ TaskLookupFails(j) \/ TaskCreateSummary(j)
    \/ TaskProgress(j)
    \/ /\ embedder[j].attempt = wattempt[j]
       /\ embedder[j].pc = "searched"
       /\ TaskProcessingReturns(j)
    \/ TaskProcessingRaises(j)
    \/ TaskCompleteSummary(j) \/ TaskCompleteJob(j)
    \/ TaskFailJob(j) \/ TaskFailSummary(j)

NextConcurrent == \E j \in Runs : ConcurrentTask(j) \/ RunOfTask(j)

SpecConcurrent == InitConcurrent /\ [][NextConcurrent]_vars

(***************************************************************************)
(* SpecCosine: cosine_similarity of every pair of vectors of two integer   *)
(* components.                                                             *)
(***************************************************************************)
InitCosine ==
    /\ StoreUnused
    /\ template = <<>>
    /\ engine = EngineIdle
    /\ chunker = ChunkerIdle
    /\ IndexIdle
    /\ \E vec1, vec2 \in Vectors : search = CosineCall(vec1, vec2)

NextCosine == CosineReturns

SpecCosine == InitCosine /\ [][NextCosine]_vars

(***************************************************************************)
(* SpecRetry: one retry_failed_summary request, arriving at any moment of  *)
(* the life of a job and its task; the task of the job the request creates *)
(* is left queued.                                                         *)
(***************************************************************************)
InitRetry ==
    /\ now = 0
    /\ jobs = [j \in {TheJob} |-> NewJob(0)]
    /\ summaries = <<>>
    /\ wpc = [j \in {TheJob} |-> "queued"]
    /\ wattempt = [j \in {TheJob} |-> 1]
    /\ wsummary = [j \in {TheJob} |-> NoSummary]
    /\ werr = [j \in {TheJob} |-> NoMsg]
    /\ cpc = [j \in {TheJob} |-> "idle"]
    /\ SweepInit
    /\ template = <<>>
    /\ engine = EngineIdle
    /\ chunker = ChunkerIdle
    /\ search = SearchIdle
    /\ IndexIdle
    /\ \E document \in DocumentLookups, template_found \in BOOLEAN :
          retry = RetryRequest(document, template_found)

Retry ==
    \/ RetryNotFound \/ RetryFinds \/ RetryVerifies
    \/ RetryDeletes \/ RetryCreatesJob

\* the task of the job whose summary is retried
RetriedTask ==
    \E j \in {TheJob} :
        \/ TaskStart(j) \/ TaskLookupFails(j) \/ TaskCreateSummary(j)
        \/ TaskProgress(j) \/ TaskProcessingReturns(j)
        \/ TaskProcessingRaises(j) \/ TaskCompleteSummary(j)
        \/ TaskCompleteJob(j) \/ TaskFailJob(j) \/ TaskFailSummary(j)

NextRetry == RetriedTask \/ Retry

SpecRetry == InitRetry /\ [][NextRetry]_vars

(***************************************************************************)
(* SpecReindex: the runs of the engine on one document, one after the      *)
(* other (first run, retry, re-attempt, a run under another template, a    *)
(* run after a failed indexing); each indexes the document and searches    *)
(* it.                                                                     *)
(***************************************************************************)
InitReindex ==
    /\ StoreUnused
    /\ template = <<>>
    /\ engine = EngineIdle
    /\ chunker = ChunkerIdle
    /\ search = SearchIdle
    /\ collection = <<>>
    /\ \E document_id \in Documents :
          embedder = [r \in Runs |->
                         [EmbedderIdle EXCEPT !.document_id = document_id]]

\* the next run on the document begins once the one before is over; its
\* template may chunk the document differently
NextRunIndexes(r) ==
    /\ embedder[r].pc \in {"idle", "searched", "raised"}
    /\ embedder[r].passes < MaxPasses
    /\ \E n \in 1..MaxEmbedChunks : RunIndexes(r, n, embedder[r].passes + 1)

NextReindex ==
    \E r \in {1} : NextRunIndexes(r) \/ EmbedDefault(r) \/ RunSearches(r)

SpecReindex == InitReindex /\ [][NextReindex]_vars

(***************************************************************************)
(* The stuck-job sweep.                                                    *)
(***************************************************************************)
AllSweepersIdle == \A x \in Sweepers : sweepPc[x] = "idle"

\* C1: the jobs write of a sweep never changes the status of a job that is
\* no longer Pending or Running at the moment of the write (a job completed,
\* cancelled or failed since the detection read keeps its status).
C1_SweepWriteIsStatusFiltered ==
    [][\A s \in Sweepers : SweepFailJobs(s) =>
          \A j \in JobIds : jobs[j].status \notin {PENDING, RUNNING}
                               => jobs'[j].status = jobs[j].status]_vars

\* C2: a sweep call that starts right after a sweep call returned, with no
\* write and no clock advance in between, detects nothing: it returns 0 and
\* changes no job and no summary, however many jobs were stuck.
C2_SecondSweepReturnsZero ==
    [][\A s \in Sweepers : (quiet /\ AllSweepersIdle /\ SweepDetect(s)) =>
          /\ sweepPc'[s] = "idle"
          /\ sweepRet'[s] = 0
          /\ jobs' = jobs
          /\ summaries' = summaries]_vars

\* C3: a Pending or Running job whose updated_at is exactly timeout_minutes
\* before the sweep's utcnow() is among the ids the detection returns.
C3_BoundaryJobIsFlagged ==
    [][\A s \in Sweepers : SweepDetect(s) =>
          \A j \in JobIds :
              (/\ jobs[j].status \in {PENDING, RUNNING}
               /\ jobs[j].updated_at = now - TimeoutMinutes)
              => (sweepPc'[s] = "detected" /\ j \in sweepIds'[s])]_vars

\* C4: the detection returns only Pending or Running jobs that are at least
\* timeout_minutes old, and the writes of a sweep leave every job it did not
\* detect (fresher jobs, Completed, Failed and Cancelled jobs) unchanged.
C4_SweepSparesFreshAndFinishedJobs ==
    [][\A s \in Sweepers :
          /\ (SweepDetect(s) /\ sweepPc'[s] = "detected") =>
                \A j \in sweepIds'[s] :
                    /\ jobs[j].status \in {PENDING, RUNNING}
                    /\ now - jobs[j].updated_at >= TimeoutMinutes
          /\ SweepFailJobs(s) =>
                \A j \in JobIds \ sweepIds[s] : jobs'[j] = jobs[j]
          /\ SweepFailSummaries(s) => jobs' = jobs]_vars

\* a sweep has failed jobs while a Running job 59 minutes old is as it was
C4_Witness ==
    /\ \E s \in Sweepers : sweepPc[s] = "idle" /\ sweepRet[s] > 0
    /\ jobs[1] = JobSnapshot(1, RUNNING, 2)
    /\ now - jobs[1].updated_at = TimeoutMinutes - 1

\* C5: when a sweep returns, every summary whose job_id is among the jobs the
\* sweep failed has status failed, the summary timeout message and
\* completed_at set; none is left in processing.
C5_SweepFailsDependentSummaries ==
    [][\A s \in Sweepers : SweepFailSummaries(s) =>
          \A x \in DOMAIN summaries :
              summaries[x].job_id \in sweepIds[s] =>
                  /\ summaries'[x].status = FAILED
                  /\ summaries'[x].error_message = SummaryTimeoutMessage
                  /\ summaries'[x].completed_at # NoTime]_vars

\* a sweep has returned after failing a job that has a summary
C5_Witness ==
    \E s \in Sweepers :
        /\ sweepPc[s] = "idle" /\ sweepRet[s] > 0
        /\ \E x \in DOMAIN summaries :
              /\ summaries[x].job_id \in sweepIds[s]
              /\ summaries[x].status = FAILED
              /\ summaries[x].error_message = SummaryTimeoutMessage

\* the jobs of the bulk store that stay Running with no further update
BulkStuckJobs == JobIds \ {1}

\* C6: with the sweep run periodically, every job that stays Pending or
\* Running with no further update is eventually Failed with the timeout
\* message, also when more jobs are stuck than one detection returns.
C6_StuckJobsEventuallyFailed ==
    <>[](/\ \A j \in JobIds : jobs[j].status \in {PENDING, RUNNING}
                                  => now - jobs[j].updated_at <= TimeoutMinutes
         /\ \A j \in BulkStuckJobs :
               /\ jobs[j].status = FAILED
               /\ jobs[j].error_message = JobTimeoutMessage(TimeoutMinutes))

\* more jobs than one detection returns have all been failed by sweeps
C6_Witness ==
    /\ Cardinality(JobIds) > DetectLimit
    /\ \A j \in BulkStuckJobs :
          /\ jobs[j].status = FAILED
          /\ jobs[j].error_message = JobTimeoutMessage(TimeoutMinutes)

(***************************************************************************)
(* The retry loop of _pass_3_synthesize_section.                           *)
(***************************************************************************)
FailedTypes == {engine.fails[i].type : i \in DOMAIN engine.fails}

SynthesisExhausted == engine.pc = "failed" /\ engine.failedAt = "pass3"

\* C7: when every completion call of a synthesis times out, the synthesis
\* makes exactly 3 calls, sleeps exactly twice, 2 s then 4 s, does not sleep
\* after the third failure, and raises.
C7_PersistentTimeoutThreeCallsTwoSleeps ==
    (FailedTypes = {APITimeoutError} /\ engine.calls = Len(engine.fails)) =>
        /\ engine.calls <= 3
        /\ engine.sleeps = SubSeq(<<2, 4>>, 1, IF engine.calls < 3 THEN engine.calls ELSE 2)
        /\ engine.calls = 3 <=> SynthesisExhausted
        /\ SynthesisExhausted => engine.raised # NoException

\* three calls timed out and the synthesis raised
C7_Witness ==
    /\ SynthesisExhausted
    /\ engine.calls = 3
    /\ \A i \in 1..3 : engine.fails[i].type = APITimeoutError

\* C8: the sleep after failed attempt n < 3 is 2^n seconds when attempt n
\* failed with a timeout or a generic provider error and 2^(n+1) seconds when
\* it failed with a rate-limit error, whatever the other attempts failed
\* with; there is one sleep per failed attempt below the third.
C8_BackoffByAttemptAndClass ==
    /\ Len(engine.sleeps) = (IF Len(engine.fails) < 3 THEN Len(engine.fails) ELSE 2)
    /\ \A n \in DOMAIN engine.sleeps :
          /\ engine.fails[n].type \in {APITimeoutError, APIError}
                => engine.sleeps[n] = 2 ^ n
          /\ engine.fails[n].type = RateLimitError
                => engine.sleeps[n] = 2 ^ (n + 1)

\* mixed classes: a rate limit at attempt 1 and a timeout at attempt 2, both
\* followed by a sleep of 4 s, and a generic error then a rate limit: 2 s, 8 s
C8_Witness ==
    \/ /\ Len(engine.sleeps) = 2
       /\ engine.fails[1].type = RateLimitError
       /\ engine.fails[2].type = APITimeoutError
       /\ engine.attempt = 3
    \/ /\ Len(engine.sleeps) = 2
       /\ engine.fails[1].type = APIError
       /\ engine.fails[2].type = RateLimitError
       /\ engine.pc = "pass4"

\* the class a raised message tells its reader
MessageClass(m) ==
    CASE m = TimeoutExhaustedMessage -> "timeout"
      [] m = RateLimitExhaustedMessage -> "rate limit"
      [] \E e \in CompletionFailures : m = ApiErrorMessage(e.message) -> "provider error"
      [] OTHER -> "raw"

\* C9: whenever all 3 completion attempts of a synthesis failed, whatever
\* the sequence of failure kinds, the synthesis raises a failure whose
\* message is one of three pairwise distinct messages telling timeout, rate
\* limit and provider error apart, never the string of the exception the
\* completion call raised.
C9_ExhaustionRaisesClassifiedMessage ==
    /\ Cardinality({TimeoutExhaustedMessage, RateLimitExhaustedMessage,
                    ApiErrorMessage(<<"Internal server error">>)}) = 3
    /\ SynthesisExhausted =>
          /\ engine.raised.type = "Exception"
          /\ MessageClass(engine.raised.message) # "raw"
          /\ engine.raised.message \notin {e.message : e \in CompletionFailures}

\* C10: a synthesis given zero hits returns exactly "No relevant content
\* found for section: <title>", makes no completion call and no backoff
\* sleep, and does not fail the run: the section is assembled with that
\* content.
C10_NoHitsFallbackWithoutCalls ==
    /\ (engine.pc \in {"pass3", "pass4", "failed"}
        /\ engine.failedAt \in {"", "pass3"} /\ engine.hits = 0) =>
          /\ engine.calls = 0
          /\ engine.sleeps = <<>>
          /\ engine.pc # "failed"
          /\ engine.pc = "pass4" =>
                engine.content = <<"No relevant content found for section: ",
                                   template[engine.idx].title>>
    /\ \A i \in DOMAIN engine.sections :
          engine.sections[i].source_chunks = 0 =>
              engine.sections[i].content =
                  <<"No relevant content found for section: ", template[i].title>>

\* a run completed although the retrieval of one of its sections had no hits
C10_Witness ==
    /\ engine.pc = "completed"
    /\ \E i \in DOMAIN engine.sections :
          /\ engine.sections[i].source_chunks = 0
          /\ engine.sections[i].content =
                 <<"No relevant content found for section: ", template[i].title>>

\* c is r without its leading and trailing whitespace
IsTrimmed(c, r) ==
    \E a, b \in 0..Len(r) :
        /\ a + b <= Len(r)
        /\ c = SubSeq(r, a + 1, Len(r) - b)
        /\ \A i \in 1..a : r[i] \in Whitespace
        /\ \A i \in (Len(r) - b + 1)..Len(r) : r[i] \in Whitespace
        /\ c # <<>> => (c[1] \notin Whitespace /\ c[Len(c)] \notin Whitespace)

\* C11: a synthesis never makes more than 3 completion calls; when its k-th
\* call is the first to succeed it has made exactly k calls (k - 1 failed)
\* and k - 1 sleeps, returns that call's content (trimmed), and the counts
\* stay as they are until the next section's synthesis.
C11_ReturnsAtFirstSuccess ==
    /\ engine.calls <= 3
    /\ (engine.pc \in {"pass2", "pass4", "completed", "returned"}
        /\ engine.calls > 0) =>
          /\ engine.calls = Len(engine.fails) + 1
          /\ Len(engine.sleeps) = engine.calls - 1
          /\ IsTrimmed(engine.content, engine.response)
          /\ engine.response \in CompletionContents

\* the third call was the first to succeed and its content had whitespace
\* around it
C11_Witness ==
    /\ engine.pc = "pass4"
    /\ engine.calls = 3
    /\ Len(engine.fails) = 2
    /\ engine.response # engine.content

(***************************************************************************)
(* Failure of a run, and the records a failed or finished task leaves.     *)
(***************************************************************************)
\* the indices of the sections a run has entered a pass for
SectionsEntered == {engine.trace[i][2] : i \in DOMAIN engine.trace} \ {0}

\* C12: when indexing or a section pass raises, process_document propagates
\* the exception: the run is failed and never completed, no section after
\* the failing one is retrieved or synthesized and the engine takes no
\* further step; the task hands the exception to its except clause, which
\* leaves the job Failed and the summary of this execution Failed; a run
\* only counts as success with one section per template section.
C12_FailureFailsWholeRun ==
    /\ [](engine.pc = "failed" =>
            /\ engine.status = FAILED
            /\ engine.raised # NoException
            /\ engine.error = engine.raised.message
            /\ \A i \in SectionsEntered : i <= engine.idx
            /\ Len(engine.sections) = (IF engine.idx = 0 THEN 0 ELSE engine.idx - 1))
    /\ [](engine.status = COMPLETED => Len(engine.sections) = Len(template))
    /\ [][/\ engine.pc = "failed" => engine' \in {engine, EngineIdle}
          /\ \A j \in JobIds :
                /\ TaskProcessingRaises(j) =>
                      (engine.pc = "failed" /\ werr'[j] = engine.raised.message)
                /\ TaskProcessingReturns(j) =>
                      (engine.pc = "completed"
                       /\ Len(engine.sections) = Len(template))
                /\ TaskFailSummary(j) =>
                      /\ jobs'[j].status = FAILED
                      /\ wsummary[j] # NoSummary =>
                            summaries'[wsummary[j]].status = FAILED]_vars

\* an execution of the task of job j has ended by raising
TaskEndedInFailure(j) ==
    \/ wpc[j] = "raised"
    \/ wpc[j] = "queued" /\ wattempt[j] > 1

\* C13: once an execution of generate_summary_task has ended in failure,
\* also an automatically re-attempted one, the job is Failed with a message
\* and every summary created for the job is Failed, none is in processing.
C13_FailedTaskLeavesFailedRecords ==
    \A j \in JobIds : TaskEndedInFailure(j) =>
        /\ jobs[j].status = FAILED
        /\ jobs[j].error_message # NoMsg
        /\ \A x \in DOMAIN summaries :
              summaries[x].job_id = j => summaries[x].status = FAILED

\* the messages of the input and reference failures: document or template
\* not found, document without chunks
InputErrorMessages ==
    LookupErrors \cup {e.message : e \in IndexingFailures}

\* C14: an execution that fails because the document or the template is not
\* found, or because the document has no chunks, has made no completion call
\* and no backoff sleep, is the first execution of the task and is not
\* re-attempted, and leaves the job Failed.
C14_InputErrorsFailWithoutRetry ==
    [][\A j \in JobIds :
          /\ TaskLookupFails(j) => (engine.calls = 0 /\ engine.sleeps = <<>>)
          /\ (TaskProcessingRaises(j) /\ werr'[j] \in InputErrorMessages) =>
                (engine.calls = 0 /\ engine.sleeps = <<>>)
          /\ (TaskFailSummary(j) /\ werr[j] \in InputErrorMessages) =>
                /\ jobs'[j].status = FAILED
                /\ wattempt[j] = 1
                /\ wattempt'[j] = wattempt[j]
                /\ wpc'[j] = "raised"]_vars

\* C15: a summary is created in processing, and once its status is
\* Completed or Failed no step of a worker, of a re-attempted task or of a
\* sweep changes its status.
C15_SummaryFinalizedOnce ==
    [][/\ \A x \in DOMAIN summaries' \ DOMAIN summaries :
              summaries'[x].status = PROCESSING
       /\ \A x \in DOMAIN summaries :
              summaries[x].status \in {COMPLETED, FAILED} =>
                  summaries'[x].status = summaries[x].status]_vars

(***************************************************************************)
(* The result of a run.                                                    *)
(***************************************************************************)
\* C16: the sections of a completed run are in ascending order of their
\* template order field, whatever the order in which the template stores
\* its sections.
C16_SectionsInAscendingOrder ==
    engine.pc = "completed" =>
        \A i, k \in DOMAIN engine.sections :
            i < k => engine.sections[i].order < engine.sections[k].order

\* the passes of a run over n sections, in the order the states
\* Indexing, then per section Retrieving, Synthesizing, Assembling prescribe
StagesInOrder(n) ==
    [i \in 1..(3 * n + 1) |->
        IF i = 1 THEN <<"pass1", 0>>
        ELSE <<<<"pass2", "pass3", "pass4">>[((i - 2) % 3) + 1], ((i - 2) \div 3) + 1>>]

C19_SourceChunksAreHitsUsed ==
    [][(Pass4Assemble \/ RegenerateReturns) =>
          LET r == IF engine.mode = "run"
                   THEN engine'.sections[Len(engine'.sections)]
                   ELSE engine'.returned
          IN  /\ r.source_chunks = Len(engine.context)
              /\ r.source_chunks <= 15
              /\ r.pages_referenced =
                     {engine.chunks[i] : i \in DOMAIN engine.chunks}]_vars

(***************************************************************************)
(* regenerate_section                                                      *)
(***************************************************************************)
TitlePositions == {i \in DOMAIN template : template[i].title = engine.title}

\* C20: regenerate_section for a title of the template runs the per-section
\* pass of the full run for the first section of that title: retrieval of at
\* most 20 results of the document, then synthesis with the fallback on no
\* hits, at most 3 calls and the backoff of the retry policy, and returns
\* the section that pass assembles; for a title the template does not hold
\* it raises ValueError before any retrieval or completion call.
C20_RegenerateRunsSectionPass ==
    /\ TitlePositions = {} =>
          /\ engine.pc \in {"regenerate", "failed"}
          /\ engine.trace = <<>>
          /\ engine.calls = 0
          /\ engine.pc = "failed" =>
                (engine.raised.type = "ValueError" /\ engine.failedAt = "regenerate")
    /\ (TitlePositions # {} /\ engine.pc # "regenerate") =>
          LET first == CHOOSE i \in TitlePositions : \A k \in TitlePositions : i <= k
              passes == <<<<"pass2", first>>, <<"pass3", first>>, <<"pass4", first>>>>
          IN  /\ engine.idx = first
              /\ engine.trace = SubSeq(passes, 1, Len(engine.trace))
              /\ Len(engine.chunks) <= 20
              /\ engine.chunks \in SearchResults(engine.indexing)
              /\ engine.calls <= 3
              /\ \A n \in DOMAIN engine.sleeps :
                    engine.sleeps[n] = (IF engine.fails[n].type = RateLimitError
                                        THEN 2 ^ (n + 1) ELSE 2 ^ n)
              /\ engine.pc = "failed" => engine.failedAt \in {"pass2", "pass3"}
              /\ engine.pc = "returned" =>
                    /\ engine.returned.title = engine.title
                    /\ engine.returned.order = template[first].order
                    /\ engine.returned.source_chunks = Len(engine.chunks)
                    /\ engine.returned.pages_referenced =
                           {engine.chunks[i] : i \in DOMAIN engine.chunks}
                    /\ IF engine.chunks = <<>>
                       THEN /\ engine.calls = 0
                            /\ engine.returned.content =
                                   <<"No relevant content found for section: ",
                                     engine.title>>
                       ELSE /\ engine.calls = Len(engine.fails) + 1
                            /\ IsTrimmed(engine.returned.content, engine.response)

\* a regeneration returned after one retry, for a title the template holds
\* twice
C20_Witness ==
    /\ engine.pc = "returned"
    /\ Cardinality(TitlePositions) = 2
    /\ engine.calls = 2

(***************************************************************************)
(* Section regeneration as a task.                                         *)
(***************************************************************************)
\* the failures the contract of a regeneration excuses: a missing summary,
\* document or template, a title absent from the template, a failing provider
RegenerationExcusedErrors ==
    RegenerateLookupErrors
    \cup {SectionNotFound(engine.title).message}
    \cup {e.message : e \in RetrievalFailures}
    \cup {ExhaustedException(e).message : e \in CompletionFailures}

\* C21: when the summary, its document and its template exist, the title is
\* in the template and the providers succeed, regenerate_section_task ends
\* with the job Completed at progress 100 and the summary's section of that
\* title replaced by the regenerated section, every other section unchanged:
\* an execution that ended in failure failed for one of the excused causes,
\* and one that ended normally left the job and the summary so.
C21_RegenerationCompletesAndReplaces ==
    \A j \in JobIds :
        /\ wpc[j] = "raised" => werr[j] \in RegenerationExcusedErrors
        /\ wpc[j] = "done" =>
              /\ jobs[j].status = COMPLETED
              /\ jobs[j].progress = 100
              /\ LET old == StoredSummary(template).sections
                     k == FindSection(template, engine.title)
                 IN  summaries[wsummary[j]].sections =
                        [i \in DOMAIN old |->
                           IF i = k THEN engine.returned ELSE old[i]]

(***************************************************************************)
(* Progress signalling.                                                    *)
(***************************************************************************)
\* the sections the run has started
SectionStarts(trace) ==
    Cardinality({i \in DOMAIN trace : trace[i][1] = "pass2"})

\* the checkpoints a run has passed: indexing start, indexing end once the
\* first section is entered, and each section start
CheckpointsPassed(trace) ==
    1 + (IF SectionStarts(trace) > 0 THEN 1 ELSE 0) + SectionStarts(trace)

\* C22: during every run started by generate_summary_task the orchestrator
\* invokes the progress callback at indexing start, at indexing end and at
\* each section start, so that the job's progress advances at every
\* checkpoint: while the task is in its processing step, the callback has
\* been invoked once per checkpoint passed and the job's progress has moved
\* past the value it had when the run was started.
C22_ProgressSignalledAtCheckpoints ==
    \A j \in JobIds :
        (wpc[j] = "processing" /\ engine.pc # "idle") =>
            /\ Len(engine.signals) = CheckpointsPassed(engine.trace)
            /\ SectionStarts(engine.trace) > 0 => jobs[j].progress > 10

(***************************************************************************)
(* The freshness timestamp of a job.                                       *)
(***************************************************************************)
\* C23: every write that changes a job's status or progress (by
\* generate_summary_task, regenerate_section_task, cancel_job or the sweep)
\* also sets updated_at to the time of that write, so a job's updated_at
\* never decreases and is never older than its latest status or progress
\* change.
C23_WritesStampUpdatedAt ==
    [][\A j \in JobIds :
          /\ jobs'[j].updated_at >= jobs[j].updated_at
          /\ (jobs'[j].status # jobs[j].status
              \/ jobs'[j].progress # jobs[j].progress)
                => jobs'[j].updated_at = now']_vars

\* a progress write and a status write, each made after the clock advanced
C23_Witness ==
    \E j \in JobIds :
        /\ now > 0
        /\ jobs[j].updated_at = now
        /\ \/ jobs[j].progress = 5
           \/ jobs[j].status = CANCELLED

(***************************************************************************)
(* The chunker.                                                            *)
(***************************************************************************)
\* the sum of the chunks' word counts
TotalChunkWords(chunks) ==
    LET Sum[k \in 0..Len(chunks)] ==
            IF k = 0 THEN 0 ELSE Sum[k - 1] + chunks[k].word_count
    IN  Sum[Len(chunks)]

\* the word of the document at position w is in the chunk
HoldsWord(chunk, w) ==
    chunk.first_word <= w /\ w < chunk.first_word + chunk.word_count

\* C24: for every document and every strategy, the chunks cover the whole
\* document: the sum of the chunks' word counts is at least the document's
\* total word count, and no word of the document is missing from every
\* chunk.
C24_ChunksCoverDocument ==
    chunker.pc = "returned" =>
        /\ TotalChunkWords(chunker.chunks) >= chunker.total_words
        /\ \A w \in 0..(chunker.total_words - 1) :
              \E k \in DOMAIN chunker.chunks : HoldsWord(chunker.chunks[k], w)

\* C25: for every document and every strategy with overlap <= chunk size,
\* the sum of the chunks' word counts is at most 2x the document's total
\* word count; the chunks appended so far are a prefix of those returned,
\* so the bound is on every state of the loop.
C25_ChunkWordsAtMostTwice ==
    chunker.overlap <= chunker.chunk_size =>
        TotalChunkWords(chunker.chunks) <= 2 * chunker.total_words

\* C26: in the chunks returned, chunk k has index k (indices are 0..N-1
\* with no gaps) and starts at word k x (chunk_size - overlap); every chunk
\* except the last has exactly chunk_size words, consecutive chunks share
\* exactly overlap words, and the approximate start offsets (word_index x 6)
\* strictly increase with the index.
C26_SlidingWindow ==
    chunker.pc = "returned" =>
        LET chunks == chunker.chunks
            N == Len(chunks)
            step == chunker.chunk_size - chunker.overlap
        IN  \A i \in 1..N :
               /\ chunks[i].chunk_index = i - 1
               /\ chunks[i].first_word = (i - 1) * step
               /\ chunks[i].start_char = chunks[i].first_word * 6
               /\ i < N =>
                    /\ chunks[i].word_count = chunker.chunk_size
                    /\ Cardinality({w \in 0..(chunker.total_words - 1) :
                                       /\ HoldsWord(chunks[i], w)
                                       /\ HoldsWord(chunks[i + 1], w)})
                         = chunker.overlap
                    /\ chunks[i].start_char < chunks[i + 1].start_char

\* three chunks returned under a strategy with overlap
C26_Witness ==
    /\ chunker.pc = "returned"
    /\ Len(chunker.chunks) >= 3
    /\ chunker.overlap > 0

\* the page _get_page_at_position gives for a chunk, before the clamp
LookedUpPage(chunk) ==
    GetPageAtPosition(chunk.start_char, BuildPagePositions(chunker.pages))

\* the chunk's approximate offset lies beyond the last page interval
BeyondLastPage(chunk) ==
    LET page_positions == BuildPagePositions(chunker.pages)
    IN  /\ Len(page_positions) > 0
        /\ chunk.start_char >= page_positions[Len(page_positions)].end

\* C27: every chunk's page_number is within [1, total_pages], for every
\* document, including when the chunk's approximate offset (word_index x 6)
\* falls beyond the last page interval and when empty pages were skipped
\* during extraction.
C27_PageNumberInRange ==
    \A k \in DOMAIN chunker.chunks :
        /\ chunker.chunks[k].page_number >= 1
        /\ chunker.chunks[k].page_number <= chunker.total_pages

\* a returned chunk list with a chunk beyond the last page interval and a
\* chunk whose looked-up page number exceeds total_pages, a page having
\* been skipped
C27_Witness ==
    /\ chunker.pc = "returned"
    /\ \E k \in DOMAIN chunker.chunks : BeyondLastPage(chunker.chunks[k])
    /\ \E k \in DOMAIN chunker.chunks :
          LookedUpPage(chunker.chunks[k]) > chunker.total_pages

\* C28: chunking an empty text yields an empty chunk list; chunking a
\* document with fewer than min_chunk_words words yields exactly one chunk
\* holding all of its words; and every chunk other than the first has at
\* least min_chunk_words words (a smaller trailing window is dropped).
C28_SmallDocumentsAndTrailingWindow ==
    chunker.pc = "returned" =>
        /\ chunker.total_words = 0 => chunker.chunks = <<>>
        /\ (0 < chunker.total_words
            /\ chunker.total_words < chunker.min_chunk_size) =>
              /\ Len(chunker.chunks) = 1
              /\ chunker.chunks[1].first_word = 0
              /\ chunker.chunks[1].word_count = chunker.total_words
        /\ \A k \in DOMAIN chunker.chunks :
              k > 1 => chunker.chunks[k].word_count >= chunker.min_chunk_size

(***************************************************************************)
(* Similarity search.                                                      *)
(***************************************************************************)
\* the stored records the search did not return
LeftOut ==
    {i \in DOMAIN search.embeddings :
        \A r \in DOMAIN search.results :
            search.results[r].chunk_index # search.embeddings[i].chunk_index}

\* C29: for every query and every index content, search_similar_chunks
\* returns at most topK hits, every returned hit has similarity >=
\* minSimilarity, the hits are stored records in non-increasing similarity
\* order, and no stored record that was left out scores higher than a
\* returned one; nothing is returned only when no record reaches
\* minSimilarity.
C29_TopKAboveThresholdDescending ==
    search.pc = "returned" =>
        LET results == search.results
        IN  /\ Len(results) <= search.top_k
            /\ \A r \in DOMAIN results :
                  /\ results[r].similarity >= search.min_similarity
                  /\ \E i \in DOMAIN search.embeddings :
                        search.embeddings[i] = results[r]
                  /\ r > 1 => results[r - 1].similarity >= results[r].similarity
                  /\ \A i \in LeftOut :
                        search.embeddings[i].similarity <= results[r].similarity
            /\ (results = <<>>) =>
                  \A i \in DOMAIN search.embeddings :
                      search.embeddings[i].similarity < search.min_similarity

\* a search that dropped a record below the threshold and truncated the
\* rest to top_k
C29_Witness ==
    /\ search.pc = "returned"
    /\ Len(search.results) = search.top_k
    /\ Len(search.results) >= 2
    /\ search.results[1].similarity > search.results[2].similarity
    /\ \E i \in LeftOut : search.embeddings[i].similarity >= search.min_similarity
    /\ search.embeddings[1].similarity < search.embeddings[Len(search.embeddings)].similarity

\* C30: search hits with equal similarity are returned in ascending
\* original chunk index, whatever order the store returns the records in,
\* so the result (including which tied hits survive truncation to topK) is
\* deterministic: a hit precedes every hit of its similarity with a larger
\* chunk index, and a tied record left out has a larger chunk index than
\* the tied hits returned.
C30_TiesByChunkIndex ==
    search.pc = "returned" =>
        LET results == search.results
        IN  /\ \A r, q \in DOMAIN results :
                  (r < q /\ results[r].similarity = results[q].similarity)
                     => results[r].chunk_index < results[q].chunk_index
            /\ \A r \in DOMAIN results : \A i \in LeftOut :
                  search.embeddings[i].similarity = results[r].similarity
                     => results[r].chunk_index < search.embeddings[i].chunk_index

(***************************************************************************)
(* Indexing: generate_embeddings_for_chunks.                               *)
(***************************************************************************)
\* the records whose ids the call collected, in the order of the ids
PersistedBy(call) ==
    [k \in 1..Len(call.embedding_ids) |-> collection[call.embedding_ids[k]]]

\* one record per input chunk, each pairing its chunk's index, text and
\* document id with the vector returned for that chunk; as many ids as chunks
OneRecordPerChunk(call) ==
    /\ Len(call.embedding_ids) = Len(call.chunks)
    /\ Len(collection) = call.before + Len(call.chunks)
    /\ \A k \in 1..Len(call.embedding_ids) :
          /\ call.embedding_ids[k] > call.before
          /\ \A m \in 1..Len(call.embedding_ids) :
                m # k => call.embedding_ids[m] # call.embedding_ids[k]
          /\ PersistedBy(call)[k].document_id = call.document_id
          /\ PersistedBy(call)[k].chunk_index = call.chunks[k].chunk_index
          /\ PersistedBy(call)[k].chunk_text = call.chunks[k].text
          /\ PersistedBy(call)[k].embedding_vector = call.returned[k]

\* the call is over, was given chunks, and no provider request failed
EmbeddedWithoutProviderFailure(call) ==
    /\ call.pc \in {"returned", "raised"}
    /\ call.chunks # <<>>
    /\ call.error # "provider"

EmbedOutcomeByBatchSize ==
    \A r \in Runs :
        LET call == embedder[r]
        IN  EmbeddedWithoutProviderFailure(call)
            => IF call.batch_size < 0
               THEN /\ call.pc = "returned"
                    /\ call.embedding_ids = <<>>
                    /\ Len(collection) = call.before
               ELSE IF /\ call.batch_size > SelfBatchSize
                       /\ Len(call.chunks) > SelfBatchSize
               THEN /\ call.pc = "raised"
                    /\ call.error = "ValueError: batch size exceeds maximum"
                    /\ call.embedding_ids = <<>>
                    /\ Len(collection) = call.before
               ELSE /\ call.pc = "returned"
                    /\ OneRecordPerChunk(call)

(***************************************************************************)
(* Concurrent runs on different documents.                                 *)
(***************************************************************************)
\* the records run r has inserted itself: the collection as it would be if
\* no other run had written to it
OwnRecords(r) ==
    SelectSeq(collection, LAMBDA emb : emb.id \in embedder[r].owned)

\* the summaries of job j
SummariesOf(db_summaries, j) ==
    LET S == {s \in DOMAIN db_summaries : db_summaries[s].job_id = j}
    IN  [s \in S |-> db_summaries[s]]

\* every hit of a run belongs to the run's document, and the hits are those
\* the search returns over the run's own records
HitsAsIfAlone(r) ==
    /\ \A k \in 1..Len(embedder[r].hits) :
          embedder[r].hits[k].document_id = embedder[r].document_id
    /\ embedder[r].pc = "searched"
          => embedder[r].hits =
                TopK(SortBySimilarity(
                         AboveThreshold(WithSimilarity(OwnRecords(r)),
                                        SearchMinSimilarity)),
                     SearchTopK)

\* a step that is not of run r leaves the job, the summaries, the indexing
\* state and the stored records of run r as they are
UntouchedByOthers(r) ==
    (wpc'[r] = wpc[r] /\ embedder'[r] = embedder[r])
        => /\ jobs'[r] = jobs[r]
           /\ SummariesOf(summaries', r) = SummariesOf(summaries, r)
           /\ SelectSeq(collection', LAMBDA emb : emb.id \in embedder[r].owned)
                 = OwnRecords(r)

\* C32: Runs on different documents that execute concurrently do not
\* interfere: every hit retrieved in a run belongs to that run's document,
\* and each run's sections and its job and summary status and progress are
\* the same as if the other run were absent.
C32_ConcurrentRunsDoNotInterfere ==
    /\ [](\A r \in Runs : HitsAsIfAlone(r))
    /\ [][\A r \in Runs : UntouchedByOthers(r)]_vars

\* both runs have completed with hits, and the first and the last record of
\* the collection belong to different documents
C32_Witness ==
    /\ \A r \in Runs :
          /\ r \in DOMAIN jobs
          /\ jobs[r].status = COMPLETED
          /\ embedder[r].pc = "searched"
          /\ embedder[r].hits # <<>>
          /\ Len(embedder[r].hits) < Len(embedder[r].chunks)
    /\ collection[1].document_id # collection[Len(collection)].document_id

(***************************************************************************)
(* cosine_similarity.                                                      *)
(***************************************************************************)
\* a vector with a non-zero component
NonZero(vec) == \E i \in DOMAIN vec : vec[i] # 0

\* the properties of the returned value that do not depend on the rounding:
\* symmetric, within [0, 1], 0 for a zero vector or a dot product that is
\* not positive, and never 0 for a vector compared with itself
SymmetricBoundedClamped ==
    search.pc = "cosine returned"
        => /\ search.similarity = CosineSimilarity(search.vec2, search.vec1)
           /\ ~GreaterThanOne(search.similarity)
           /\ (~NonZero(search.vec1) \/ ~NonZero(search.vec2)
                  \/ DotProduct(search.vec1, search.vec2) <= 0)
                 => search.similarity = Zero
           /\ (NonZero(search.vec1) /\ search.vec1 = search.vec2)
                 => search.similarity # Zero

RetryStartsOnlyWhenAllowed ==
    /\ retry.pc \in {"found", "verified", "deleted", "accepted"}
          => retry.status = FAILED
    /\ retry.pc \in {"verified", "deleted", "accepted"}
          => retry.document = "completed" /\ retry.template
    /\ retry.pc = "rejected" => DOMAIN jobs = {TheJob}
    /\ retry.pc = "accepted"
          => /\ retry.summary_id \notin DOMAIN summaries
             /\ DOMAIN jobs = {TheJob, retry.job_id}
             /\ retry.job_id # TheJob
             /\ jobs[retry.job_id].status = PENDING
             /\ jobs[retry.job_id].progress = 0
             /\ wpc[retry.job_id] = "queued"
             /\ wattempt[retry.job_id] = 1

\* what a step of the request may change: nothing up to the last check and
\* in a rejection, then the failed summary, then the new job; never the
\* old job or its task
RetryStepChanges ==
    retry' # retry
        => /\ jobs'[TheJob] = jobs[TheJob]
           /\ wpc'[TheJob] = wpc[TheJob]
           /\ wattempt'[TheJob] = wattempt[TheJob]
           /\ retry'.pc \notin {"deleted", "accepted"}
                 => summaries' = summaries /\ jobs' = jobs
           /\ retry'.pc = "deleted"
                 => /\ jobs' = jobs
                    /\ retry.summary_id \in DOMAIN summaries
                    /\ summaries[retry.summary_id].status = FAILED
                    /\ DOMAIN summaries' = DOMAIN summaries \ {retry.summary_id}
                    /\ \A s \in DOMAIN summaries' : summaries'[s] = summaries[s]
           /\ retry'.pc = "accepted"
                 => /\ summaries' = summaries
                    /\ DOMAIN jobs' = DOMAIN jobs \cup {retry'.job_id}
                    /\ retry'.job_id \notin DOMAIN jobs

\* C34: retry_failed_summary starts a new attempt only for a summary whose
\* status is failed and whose document exists and is completed and whose
\* template exists; it then removes the failed summary and creates exactly
\* one new Pending job with progress 0 (the old job is never reused or
\* resumed); in every rejected case (summary processing or completed,
\* document missing or not completed, template missing) it changes neither
\* the summaries nor the jobs.
C34_RetryStartsFreshAttempt ==
    /\ []RetryStartsOnlyWhenAllowed
    /\ [][RetryStepChanges]_vars

\* a retry was accepted while the task of the old job was on a later
\* execution
C34_Witness ==
    /\ retry.pc = "accepted"
    /\ retry.summary_id \notin DOMAIN summaries
    /\ jobs[retry.job_id].status = PENDING
    /\ wattempt[TheJob] > 1
    /\ jobs[TheJob].status = RUNNING

(***************************************************************************)
(* Cancellation.                                                           *)
(***************************************************************************)
\* the statuses cancel_job refuses
Finished == {COMPLETED, FAILED, CANCELLED}

\* C35: cancel_job never moves a job out of Completed, Failed or Cancelled:
\* for such a job it returns an error and leaves the job unchanged, also
\* when the job reaches that status between cancel_job's status check and
\* its write; for a Pending or Running job it sets status Cancelled with
\* completed_at set.
C35_CancelSparesFinishedJobs ==
    [][\A j \in JobIds :
          cpc'[j] # cpc[j]
              => IF jobs[j].status \in Finished
                 THEN /\ jobs'[j] = jobs[j]
                      /\ cpc'[j] = "rejected"
                 ELSE cpc'[j] = "cancelled"
                         => /\ jobs'[j].status = CANCELLED
                            /\ jobs'[j].completed_at # NoTime]_vars

\* the steps looked at are those of an execution that has begun (a task
\* still in the queue when it is revoked is discarded by the worker)
\* C36: Once cancel_job has marked a job Cancelled the job stays Cancelled:
\* a worker that is still executing, or later finishes, that job's task
\* never overwrites the status with Running, Completed or Failed.
C36_CancelledStaysCancelled ==
    [][\A j \in JobIds :
          (jobs[j].status = CANCELLED /\ wpc[j] # "queued" /\ wpc'[j] # wpc[j])
              => jobs'[j].status = CANCELLED]_vars

(***************************************************************************)
(* Failed jobs and the agreement of a job with its summaries.              *)
(***************************************************************************)
\* C37: A job that has been marked Failed is never returned to Running or
\* Completed: neither an automatic task-level re-attempt of
\* generate_summary_task for the same job nor a worker that outlives a
\* sweep's verdict overwrites the Failed status, resets progress to 0, or
\* attaches a summary_id to the job.
C37_FailedStaysFailed ==
    [][\A j \in JobIds :
          (jobs[j].status = FAILED /\ wpc'[j] # wpc[j])
              => /\ jobs'[j].status = FAILED
                 /\ jobs'[j].progress = 0 => jobs[j].progress = 0
                 /\ jobs'[j].summary_id = jobs[j].summary_id]_vars

\* the positions at which no execution of the task of a job is under way:
\* waiting in the queue, returned, given up, or lost with its worker; the
\* agreement is looked at between sweeps, not in the middle of one
NotExecuting == {"queued", "done", "raised", "lost"}

\* C38: In every state where no task for a job is executing, the job and
\* its summaries agree: a Completed job links (summary_id) a summary whose
\* status is completed, and a Failed job has no summary whose status is
\* completed or processing, under any interleaving of worker, sweep and
\* task re-attempts.
C38_JobAndSummariesAgree ==
    \A j \in JobIds :
        (wpc[j] \in NotExecuting /\ AllSweepersIdle)
            => /\ jobs[j].status = COMPLETED
                     => /\ jobs[j].summary_id \in DOMAIN summaries
                        /\ summaries[jobs[j].summary_id].status = COMPLETED
               /\ jobs[j].status = FAILED
                     => \A s \in DOMAIN summaries :
                            summaries[s].job_id = j
                                => summaries[s].status
                                       \notin {COMPLETED, PROCESSING}

WindowAdvances ==
    ChunkerAppends => chunker'.word_index > chunker.word_index

\* the window advances whenever the step chunk_size - overlap is positive
AdvancesUnderPositiveStep ==
    [][chunker.overlap < chunker.chunk_size => WindowAdvances]_vars

\* C40: create_semantic_chunks terminates for every document and every
\* chunk_size/overlap pair that a template's processing strategy can carry:
\* the window position strictly increases on every iteration, so the number
\* of chunks is finite and bounded by the document's word count.
C40_WindowAdvancesAndChunksBounded ==
    /\ [](Len(chunker.chunks) <= chunker.total_words)
    /\ [][WindowAdvances]_vars

====
